---- MODULE Spec2Model ----
(***************************************************************************)
(* Reconciliation reports of src/packages/api/endpoints/providers.js       *)
(* (lines 227-999, the create-reconciliation-report lambda): the bucket,   *)
(* collection and granule merge-joins and the per-granule file comparison. *)
(*                                                                         *)
(* JavaScript strings are sequences of character codes, compared the way   *)
(* the < operator of JavaScript compares strings.  The value `undefined`   *)
(* (and `null`) of a string variable is Undefined, of an object variable   *)
(* Null.                                                                   *)
(***************************************************************************)
EXTENDS Integers, Sequences, FiniteSets, TLC

\* ---------------------------------------------------------------- bounds
\* Longest listing of one store for one bucket.
MaxListing == 3
\* Longest list of collection ids of one store.
MaxCollections == 3
\* Longest listing of granules of one store for one collection.
MaxGranules == 3
\* Most local files of a granule, and most RelatedUrls of its CMR record.
MaxFiles == 2
MaxUrls == 2
\* Most data buckets of the bucket configuration.
MaxDataBuckets == 2

\* ---------------------------------------------------------------- values
Undefined == <<-1>>
Null == [null |-> TRUE]

\* JavaScript truthiness of a string-or-undefined value.
TruthyStr(s) == s /= Undefined /\ s /= <<>>
\* JavaScript truthiness of an object-or-null value.
TruthyObj(o) == o /= Null

Min2(a, b) == IF a <= b THEN a ELSE b

\* s < t on JavaScript strings: at the first differing position the code of s
\* is smaller, or s is a proper prefix of t.
StrLess(s, t) ==
    \E i \in 1..(Min2(Len(s), Len(t)) + 1) :
        /\ \A j \in 1..(i - 1) : s[j] = t[j]
        /\ \/ i > Len(s) /\ i <= Len(t)
           \/ i <= Len(s) /\ i <= Len(t) /\ s[i] < t[i]

\* key.replace(/^\/+/, '')
RECURSIVE StripLeadingSlashes(_)
StripLeadingSlashes(key) ==
    IF key /= <<>> /\ Head(key) = 47
    THEN StripLeadingSlashes(Tail(key))
    ELSE key

\* `s3://${bucket}/${key.replace(/^\/+/, '')}`
buildS3Uri(bucket, key) ==
    <<115, 51, 58, 47, 47>> \o bucket \o <<47>> \o StripLeadingSlashes(key)

\* lodash-free helper: f with f[k] set to v (k added to the keys when absent)
SetKey(f, k, v) == [x \in (DOMAIN f) \cup {k} |-> IF x = k THEN v ELSE f[x]]
\* delete f[k]
DeleteKey(f, k) == [x \in (DOMAIN f) \ {k} |-> f[x]]
EmptyObject == [x \in {} |-> 0]

\* All sequences over S of length at most n.
SeqsUpTo(S, n) == UNION {[1..m -> S] : m \in 0..n}

\* ------------------------------------------------- queues (peek / shift)
\* S3ListObjectsV2Queue, DynamoDbSearchQueue, ESCollectionGranuleQueue and
\* CMRSearchConceptQueue: the state of a queue is what it has not yet
\* yielded.  peek() returns the head without advancing, null when exhausted.
QueuePeek(q) == IF q = <<>> THEN Null ELSE Head(q)
\* the queue after shift(): past its head; an exhausted queue stays exhausted
QueueShift(q) == IF q = <<>> THEN <<>> ELSE Tail(q)

VARIABLES
    pc,                  \* where the running function is
    \* createReconciliationReportForBucket
    s3Listing,           \* what the bucket holds in S3 (never written)
    dynamoDbListing,     \* what DynamoDB holds for the bucket (never written)
    s3ObjectsQueue,
    dynamoDbFilesLister,
    nextS3Object,
    nextDynamoDbItem,
    okCount,
    onlyInS3,
    onlyInDynamoDb,
    okCountByGranule,
    \* reconciliationReportForCollections
    recReportParams,     \* the normalised request (never written)
    cmrCollectionItems,  \* the collections CMR holds (never written)
    esCollectionItems,   \* the collections Elasticsearch returns (never written)
    oneWayReport,
    cmrCollectionIds,
    esCollectionIds,
    okCollections,
    collectionsOnlyInCumulus,
    collectionsOnlyInCmr,
    nextDbCollectionId,
    nextCmrCollectionId,
    \* reconciliationReportForGranuleFiles
    filesReturnTo,       \* where the caller continues when the function returns
    granuleInDb,
    granuleInCmr,
    granuleFiles,        \* keyBy(granuleInDb.files, 'fileName'), in key order
    fileReport,          \* the locals okCount, onlyInCumulus, onlyInCmr
    relatedUrlPromises,  \* one callback per RelatedUrls entry
    microtasks,          \* the callbacks waiting to continue, first in first out
    \* reconciliationReportForGranules
    esGranules,          \* what the index yields for the collection (never written)
    cmrGranules,         \* what CMR yields for the collection (never written)
    esGranulesIterator,
    cmrGranulesIterator,
    oneWay,
    granulesReport,
    filesReport,
    nextDbItem,
    nextCmrItem,
    \* handler, processRequest, createReconciliationReport
    event,               \* the request (never written)
    bucketsConfigJson,   \* the bucket configuration in the system bucket (never written)
    collectionReport,    \* what the collection comparison returns for the stores
    handlerResult,       \* what handler's promise settled with
    params,
    reportRecord,        \* the tracking record in the database
    putObjects,          \* the documents written at reportKey, oldest first
    report,
    dataBuckets,
    promisedBucketReports,
    bucketReports,       \* Promise.all(promisedBucketReports)
    promisedGranuleReports,
    granuleAndFilesReports, \* Promise.all(promisedGranuleReports)
    caught,              \* the error thrown to processRequest
    spawned,             \* the reconciliations started, in order
    \* a cursor over a paginated source
    sourcePages,         \* the pages the source returns, in order (never written)
    inventoryPages,      \* the pages of the inventory scan (never written)
    cursor,              \* the cursor over sourcePages
    yielded,             \* the entries shift() returned, in order
    lastCall,            \* the last call on the cursor and what it returned
    joined,              \* the merge-join's reports, paged and single-page
    \* a reconciliation run again on the same stores
    firstRun,            \* what the first run returned, null during the first run
    \* headObject, getS3Object, describeStream
    fetchOp,             \* which of the three is called (never written)
    retryOptions,        \* the retryOptions argument, undefined when omitted (never written)
    attemptLog,          \* how every attempt so far ended, in order
    fetchResult,         \* what the returned promise settled with
    \* ExecutionPgModel
    executionRow,        \* the row of the executions table for the arn, null if none
    dbCall,              \* the last call on the model and the record it was given
    \* the order in which the reconciliations of a report returned
    finished,            \* kind and position of every reconciliation that returned, in order
    \* createReconciliationReportForBucket call by call on its two queues
    listed,              \* the pages either source returns (never written)
    queues,              \* the two queues: buffer, pages not yet fetched, exhaustion flag
    calls,               \* the calls on the queues that are suspended at a page fetch
    returned,            \* what the awaited calls returned: the pair of peeks, the shift
    shiftsIssued,        \* how many times shift() was called on either queue
    asyncReport,         \* okCount, onlyInS3, onlyInDynamoDb, okCountByGranule so far
    \* post(req, res) of the providers endpoint
    providerStores,      \* the provider ids DynamoDB and PostgreSQL hold
    storesAtRequest,     \* the two stores as they were when the request came (never written)
    postId,              \* req.body.id
    lookedUp,            \* what providerModel.get({ id }) did in the collision check
    postError,           \* the error thrown inside the try block of post, if any
    postResponse         \* the response sent

bucketVars == <<s3Listing, dynamoDbListing, s3ObjectsQueue, dynamoDbFilesLister,
                nextS3Object, nextDynamoDbItem, okCount, onlyInS3,
                onlyInDynamoDb, okCountByGranule>>

collectionVars == <<cmrCollectionItems, esCollectionItems, oneWayReport,
                    cmrCollectionIds, esCollectionIds, okCollections,
                    collectionsOnlyInCumulus, collectionsOnlyInCmr,
                    nextDbCollectionId, nextCmrCollectionId>>

fileVars == <<filesReturnTo, granuleInDb, granuleInCmr, granuleFiles, fileReport,
              relatedUrlPromises, microtasks>>

granuleVars == <<esGranules, cmrGranules, esGranulesIterator, cmrGranulesIterator,
                 oneWay, granulesReport, filesReport, nextDbItem, nextCmrItem>>

reportVars == <<event, bucketsConfigJson, collectionReport, handlerResult, params,
                reportRecord, putObjects, report, dataBuckets, promisedBucketReports,
                bucketReports, promisedGranuleReports, granuleAndFilesReports, caught,
                spawned>>

cursorVars == <<sourcePages, inventoryPages, cursor, yielded, lastCall, joined>>

rerunVars == <<firstRun>>

retryVars == <<fetchOp, retryOptions, attemptLog, fetchResult>>

executionVars == <<executionRow, dbCall>>

completionVars == <<finished>>

asyncVars == <<listed, queues, calls, returned, shiftsIssued, asyncReport>>

providerVars == <<providerStores, storesAtRequest, postId, lookedUp, postError, postResponse>>

libraryVars == <<cursorVars, rerunVars, retryVars, executionVars, completionVars, asyncVars,
                 providerVars>>

vars == <<pc, recReportParams, bucketVars, collectionVars, fileVars, granuleVars, reportVars,
          libraryVars>>

\* what each function leaves alone
outsideBucket == <<recReportParams, collectionVars, fileVars, granuleVars, reportVars,
    libraryVars>>
outsideCollections == <<bucketVars, fileVars, granuleVars, reportVars,
    libraryVars>>
outsideFiles == <<recReportParams, bucketVars, collectionVars, granuleVars, reportVars,
    libraryVars>>
outsideGranules == <<recReportParams, bucketVars, collectionVars, fileVars, reportVars,
    libraryVars>>
outsideReport == <<recReportParams, bucketVars, collectionVars, fileVars, granuleVars,
    libraryVars>>
outsideCursor == <<recReportParams, bucketVars, collectionVars, fileVars, granuleVars,
    reportVars, rerunVars, retryVars, executionVars,
    completionVars,
    asyncVars,
    providerVars>>
outsideRetry == <<recReportParams, bucketVars, collectionVars, fileVars, granuleVars,
    reportVars, cursorVars, rerunVars, executionVars,
    completionVars,
    asyncVars,
    providerVars>>
outsideExecution == <<recReportParams, bucketVars, collectionVars, fileVars, granuleVars,
    reportVars, cursorVars, rerunVars, retryVars,
    completionVars,
    asyncVars,
    providerVars>>
outsideCompletion == <<recReportParams, bucketVars, collectionVars, fileVars, granuleVars,
    reportVars, cursorVars, rerunVars, retryVars, executionVars,
    asyncVars,
    providerVars>>
outsideAsync == <<recReportParams, bucketVars, collectionVars, fileVars, granuleVars,
    reportVars, cursorVars, rerunVars, retryVars, executionVars, completionVars,
    providerVars>>
outsideProvider == <<recReportParams, bucketVars, collectionVars, fileVars, granuleVars,
    reportVars, cursorVars, rerunVars, retryVars, executionVars, completionVars, asyncVars>>

\* ======================================================================
\* createReconciliationReportForBucket(Bucket)
\* ======================================================================
Bucket == <<66>>

\* Keys of the bucket: a b c d and /b, whose URI is that of b.
BucketKeys == {<<97>>, <<98>>, <<99>>, <<100>>, <<47, 98>>}
BucketGranuleIds == {<<103, 49>>, <<103, 50>>}
S3Objects == {[Key |-> k] : k \in BucketKeys}
DynamoDbItems == {[key |-> k, granuleId |-> g] : k \in BucketKeys, g \in BucketGranuleIds}

S3UriOf(o) == buildS3Uri(Bucket, o.Key)
DynamoDbUriOf(i) == buildS3Uri(Bucket, i.key)

\* Listings come back ordered by key; the listings considered are those
\* strictly ascending by URI.
SortedS3Listings ==
    {l \in SeqsUpTo(S3Objects, MaxListing) :
        \A i \in 1..(Len(l) - 1) : StrLess(S3UriOf(l[i]), S3UriOf(l[i + 1]))}
SortedDynamoDbListings ==
    {l \in SeqsUpTo(DynamoDbItems, MaxListing) :
        \A i \in 1..(Len(l) - 1) : StrLess(DynamoDbUriOf(l[i]), DynamoDbUriOf(l[i + 1]))}

BucketIdle ==
    /\ s3Listing = <<>>
    /\ dynamoDbListing = <<>>
    /\ s3ObjectsQueue = <<>>
    /\ dynamoDbFilesLister = <<>>
    /\ nextS3Object = Null
    /\ nextDynamoDbItem = Null
    /\ okCount = 0
    /\ onlyInS3 = <<>>
    /\ onlyInDynamoDb = <<>>
    /\ okCountByGranule = EmptyObject

NoParams == [startTimestamp |-> Undefined, endTimestamp |-> Undefined]

CollectionsIdle ==
    /\ cmrCollectionItems = <<>>
    /\ esCollectionItems = <<>>
    /\ oneWayReport = FALSE
    /\ cmrCollectionIds = <<>>
    /\ esCollectionIds = <<>>
    /\ okCollections = <<>>
    /\ collectionsOnlyInCumulus = <<>>
    /\ collectionsOnlyInCmr = <<>>
    /\ nextDbCollectionId = Undefined
    /\ nextCmrCollectionId = Undefined

EmptyReport == [okCount |-> 0, onlyInCumulus |-> <<>>, onlyInCmr |-> <<>>]

FilesIdle ==
    /\ filesReturnTo = "none"
    /\ granuleInDb = Null
    /\ granuleInCmr = Null
    /\ granuleFiles = <<>>
    /\ fileReport = EmptyReport
    /\ relatedUrlPromises = <<>>
    /\ microtasks = <<>>

ReportIdle ==
    /\ event = Null
    /\ handlerResult = Null
    /\ params = Null
    /\ reportRecord = Null
    /\ putObjects = <<>>
    /\ report = Null
    /\ bucketsConfigJson = <<>>
    /\ dataBuckets = <<>>
    /\ promisedBucketReports = <<>>
    /\ bucketReports = Null
    /\ collectionReport = Null
    /\ promisedGranuleReports = <<>>
    /\ granuleAndFilesReports = Null
    /\ caught = Null
    /\ spawned = <<>>

GranulesIdle ==
    /\ esGranules = <<>>
    /\ cmrGranules = <<>>
    /\ esGranulesIterator = <<>>
    /\ cmrGranulesIterator = <<>>
    /\ oneWay = FALSE
    /\ granulesReport = EmptyReport
    /\ filesReport = EmptyReport
    /\ nextDbItem = Null
    /\ nextCmrItem = Null

CursorIdle ==
    /\ sourcePages = <<>>
    /\ inventoryPages = <<>>
    /\ cursor = Null
    /\ yielded = <<>>
    /\ lastCall = Null
    /\ joined = Null

RerunIdle == firstRun = Null

\* An argument that is left out: undefined, as a value that compares with objects.
Omitted == [undefined |-> TRUE]

RetryIdle ==
    /\ fetchOp = "none"
    /\ retryOptions = Omitted
    /\ attemptLog = <<>>
    /\ fetchResult = Null

ExecutionIdle ==
    /\ executionRow = Null
    /\ dbCall = Null

CompletionIdle ==
    /\ finished = <<>>

AsyncIdle ==
    /\ listed = Null
    /\ queues = Null
    /\ calls = {}
    /\ returned = Null
    /\ shiftsIssued = Null
    /\ asyncReport = Null

ProviderIdle ==
    /\ providerStores = Null
    /\ storesAtRequest = Null
    /\ postId = Null
    /\ lookedUp = Null
    /\ postError = Null
    /\ postResponse = Null

LibraryIdle == CursorIdle /\ RerunIdle /\ RetryIdle /\ ExecutionIdle /\ CompletionIdle /\ AsyncIdle /\ ProviderIdle

\* lines 349-355: the two queues and the empty report
BucketInit ==
    /\ pc = "bucket_start"
    /\ s3Listing \in SortedS3Listings
    /\ dynamoDbListing \in SortedDynamoDbListings
    /\ s3ObjectsQueue = s3Listing
    /\ dynamoDbFilesLister = dynamoDbListing
    /\ nextS3Object = Null
    /\ nextDynamoDbItem = Null
    /\ okCount = 0
    /\ onlyInS3 = <<>>
    /\ onlyInDynamoDb = <<>>
    /\ okCountByGranule = EmptyObject
    /\ recReportParams = NoParams
    /\ CollectionsIdle
    /\ FilesIdle
    /\ GranulesIdle
    /\ ReportIdle
    /\ LibraryIdle

\* line 357: the first pair of peeks
BucketFirstPeek ==
    /\ UNCHANGED outsideBucket
    /\ pc = "bucket_start"
    /\ nextS3Object' = QueuePeek(s3ObjectsQueue)
    /\ nextDynamoDbItem' = QueuePeek(dynamoDbFilesLister)
    /\ pc' = "bucket_loop"
    /\ UNCHANGED <<s3Listing, dynamoDbListing, s3ObjectsQueue, dynamoDbFilesLister,
                   okCount, onlyInS3, onlyInDynamoDb, okCountByGranule>>

\* One iteration of the comparison, wrongly leaving the DynamoDB item of a
\* match in its queue.
BucketLoopIterationKeepsMatched ==
    /\ UNCHANGED outsideBucket
    /\ pc = "bucket_loop"
    /\ TruthyObj(nextS3Object) /\ TruthyObj(nextDynamoDbItem)
    /\ LET nextS3Uri == buildS3Uri(Bucket, nextS3Object.Key)
           nextDynamoDbUri == buildS3Uri(Bucket, nextDynamoDbItem.key)
           g == nextDynamoDbItem.granuleId
           counts == IF g \in DOMAIN okCountByGranule /\ okCountByGranule[g] /= 0
                     THEN okCountByGranule
                     ELSE SetKey(okCountByGranule, g, 0)
       IN  /\ IF StrLess(nextS3Uri, nextDynamoDbUri)
              THEN /\ onlyInS3' = Append(onlyInS3, nextS3Uri)
                   /\ s3ObjectsQueue' = QueueShift(s3ObjectsQueue)
                   /\ okCountByGranule' = counts
                   /\ UNCHANGED <<dynamoDbFilesLister, onlyInDynamoDb, okCount>>
              ELSE IF StrLess(nextDynamoDbUri, nextS3Uri)
              THEN /\ onlyInDynamoDb' =
                          Append(onlyInDynamoDb,
                                 [uri |-> buildS3Uri(Bucket, QueuePeek(dynamoDbFilesLister).key),
                                  granuleId |-> QueuePeek(dynamoDbFilesLister).granuleId])
                   /\ dynamoDbFilesLister' = QueueShift(dynamoDbFilesLister)
                   /\ okCountByGranule' = counts
                   /\ UNCHANGED <<s3ObjectsQueue, onlyInS3, okCount>>
              ELSE /\ okCount' = okCount + 1
                   /\ okCountByGranule' = SetKey(counts, g, counts[g] + 1)
                   /\ s3ObjectsQueue' = QueueShift(s3ObjectsQueue)
                   /\ UNCHANGED <<dynamoDbFilesLister, onlyInS3, onlyInDynamoDb>>
    /\ nextS3Object' = QueuePeek(s3ObjectsQueue')
    /\ nextDynamoDbItem' = QueuePeek(dynamoDbFilesLister')
    /\ UNCHANGED <<pc, s3Listing, dynamoDbListing>>

\* One iteration of the comparison, wrongly starting the granule's count at
\* zero every time.
BucketLoopIterationResetsCounts ==
    /\ UNCHANGED outsideBucket
    /\ pc = "bucket_loop"
    /\ TruthyObj(nextS3Object) /\ TruthyObj(nextDynamoDbItem)
    /\ LET nextS3Uri == buildS3Uri(Bucket, nextS3Object.Key)
           nextDynamoDbUri == buildS3Uri(Bucket, nextDynamoDbItem.key)
           g == nextDynamoDbItem.granuleId
           counts == SetKey(okCountByGranule, g, 0)
       IN  /\ IF StrLess(nextS3Uri, nextDynamoDbUri)
              THEN \* only in S3
                   /\ onlyInS3' = Append(onlyInS3, nextS3Uri)
                   /\ s3ObjectsQueue' = QueueShift(s3ObjectsQueue)
                   /\ okCountByGranule' = counts
                   /\ UNCHANGED <<dynamoDbFilesLister, onlyInDynamoDb, okCount>>
              ELSE IF StrLess(nextDynamoDbUri, nextS3Uri)
              THEN \* only in DynamoDB: the item pushed is the one shift() returns
                   /\ onlyInDynamoDb' =
                          Append(onlyInDynamoDb,
                                 [uri |-> buildS3Uri(Bucket, QueuePeek(dynamoDbFilesLister).key),
                                  granuleId |-> QueuePeek(dynamoDbFilesLister).granuleId])
                   /\ dynamoDbFilesLister' = QueueShift(dynamoDbFilesLister)
                   /\ okCountByGranule' = counts
                   /\ UNCHANGED <<s3ObjectsQueue, onlyInS3, okCount>>
              ELSE \* in both
                   /\ okCount' = okCount + 1
                   /\ okCountByGranule' = SetKey(counts, g, counts[g] + 1)
                   /\ s3ObjectsQueue' = QueueShift(s3ObjectsQueue)
                   /\ dynamoDbFilesLister' = QueueShift(dynamoDbFilesLister)
                   /\ UNCHANGED <<onlyInS3, onlyInDynamoDb>>
    /\ nextS3Object' = QueuePeek(s3ObjectsQueue')
    /\ nextDynamoDbItem' = QueuePeek(dynamoDbFilesLister')
    /\ UNCHANGED <<pc, s3Listing, dynamoDbListing>>

\* lines 358-386: one iteration of the comparison loop, ending with the next
\* pair of peeks
BucketLoopIteration ==
    /\ UNCHANGED outsideBucket
    /\ pc = "bucket_loop"
    /\ TruthyObj(nextS3Object) /\ TruthyObj(nextDynamoDbItem)
    /\ LET nextS3Uri == buildS3Uri(Bucket, nextS3Object.Key)
           nextDynamoDbUri == buildS3Uri(Bucket, nextDynamoDbItem.key)
           g == nextDynamoDbItem.granuleId
           \* lines 362-364
           counts == IF g \in DOMAIN okCountByGranule /\ okCountByGranule[g] /= 0
                     THEN okCountByGranule
                     ELSE SetKey(okCountByGranule, g, 0)
       IN  /\ IF StrLess(nextS3Uri, nextDynamoDbUri)
              THEN \* only in S3
                   /\ onlyInS3' = Append(onlyInS3, nextS3Uri)
                   /\ s3ObjectsQueue' = QueueShift(s3ObjectsQueue)
                   /\ okCountByGranule' = counts
                   /\ UNCHANGED <<dynamoDbFilesLister, onlyInDynamoDb, okCount>>
              ELSE IF StrLess(nextDynamoDbUri, nextS3Uri)
              THEN \* only in DynamoDB: the item pushed is the one shift() returns
                   /\ onlyInDynamoDb' =
                          Append(onlyInDynamoDb,
                                 [uri |-> buildS3Uri(Bucket, QueuePeek(dynamoDbFilesLister).key),
                                  granuleId |-> QueuePeek(dynamoDbFilesLister).granuleId])
                   /\ dynamoDbFilesLister' = QueueShift(dynamoDbFilesLister)
                   /\ okCountByGranule' = counts
                   /\ UNCHANGED <<s3ObjectsQueue, onlyInS3, okCount>>
              ELSE \* in both
                   /\ okCount' = okCount + 1
                   /\ okCountByGranule' = SetKey(counts, g, counts[g] + 1)
                   /\ s3ObjectsQueue' = QueueShift(s3ObjectsQueue)
                   /\ dynamoDbFilesLister' = QueueShift(dynamoDbFilesLister)
                   /\ UNCHANGED <<onlyInS3, onlyInDynamoDb>>
    /\ nextS3Object' = QueuePeek(s3ObjectsQueue')
    /\ nextDynamoDbItem' = QueuePeek(dynamoDbFilesLister')
    /\ UNCHANGED <<pc, s3Listing, dynamoDbListing>>

\* line 358: the loop ends when either peek came back empty
BucketLoopExit ==
    /\ UNCHANGED outsideBucket
    /\ pc = "bucket_loop"
    /\ ~(TruthyObj(nextS3Object) /\ TruthyObj(nextDynamoDbItem))
    /\ pc' = "bucket_drain_s3"
    /\ UNCHANGED bucketVars

\* The drain of the S3 queue reads its head with peek() and never shifts.
BucketDrainS3KeepsHead ==
    /\ UNCHANGED outsideBucket
    /\ pc = "bucket_drain_s3"
    /\ TruthyObj(QueuePeek(s3ObjectsQueue))
    /\ onlyInS3' = Append(onlyInS3, buildS3Uri(Bucket, QueuePeek(s3ObjectsQueue).Key))
    /\ UNCHANGED <<pc, s3Listing, dynamoDbListing, s3ObjectsQueue, dynamoDbFilesLister,
                   nextS3Object, nextDynamoDbItem, okCount, onlyInDynamoDb, okCountByGranule>>

\* lines 389-392: the remaining S3 objects
BucketDrainS3 ==
    /\ UNCHANGED outsideBucket
    /\ pc = "bucket_drain_s3"
    /\ TruthyObj(QueuePeek(s3ObjectsQueue))
    /\ onlyInS3' = Append(onlyInS3, buildS3Uri(Bucket, QueuePeek(s3ObjectsQueue).Key))
    /\ s3ObjectsQueue' = QueueShift(s3ObjectsQueue)
    /\ UNCHANGED <<pc, s3Listing, dynamoDbListing, dynamoDbFilesLister, nextS3Object,
                   nextDynamoDbItem, okCount, onlyInDynamoDb, okCountByGranule>>

BucketDrainS3Exit ==
    /\ UNCHANGED outsideBucket
    /\ pc = "bucket_drain_s3"
    /\ ~TruthyObj(QueuePeek(s3ObjectsQueue))
    /\ pc' = "bucket_drain_dynamodb"
    /\ UNCHANGED bucketVars

\* lines 395-401: the remaining DynamoDB items
BucketDrainDynamoDb ==
    /\ UNCHANGED outsideBucket
    /\ pc = "bucket_drain_dynamodb"
    /\ TruthyObj(QueuePeek(dynamoDbFilesLister))
    /\ onlyInDynamoDb' =
           Append(onlyInDynamoDb,
                  [uri |-> buildS3Uri(Bucket, QueuePeek(dynamoDbFilesLister).key),
                   granuleId |-> QueuePeek(dynamoDbFilesLister).granuleId])
    /\ dynamoDbFilesLister' = QueueShift(dynamoDbFilesLister)
    /\ UNCHANGED <<pc, s3Listing, dynamoDbListing, s3ObjectsQueue, nextS3Object,
                   nextDynamoDbItem, okCount, onlyInS3, okCountByGranule>>

\* lines 403-408: the report is returned
BucketReturn ==
    /\ UNCHANGED outsideBucket
    /\ pc = "bucket_drain_dynamodb"
    /\ ~TruthyObj(QueuePeek(dynamoDbFilesLister))
    /\ pc' = "bucket_done"
    /\ UNCHANGED bucketVars

BucketNext ==
    \/ BucketFirstPeek
    \/ BucketLoopIteration
    \/ BucketLoopExit
    \/ BucketDrainS3
    \/ BucketDrainS3Exit
    \/ BucketDrainDynamoDb
    \/ BucketReturn

SpecBucket == BucketInit /\ [][BucketNext]_vars

\* ---------------------------------------------------------------- C1
\* What the claim expects, computed from the two listings alone.
S3Uris == {S3UriOf(s3Listing[i]) : i \in 1..Len(s3Listing)}
DynamoDbUris == {DynamoDbUriOf(dynamoDbListing[i]) : i \in 1..Len(dynamoDbListing)}

RECURSIVE S3OnlyUris(_)
S3OnlyUris(l) ==
    IF l = <<>> THEN <<>>
    ELSE IF S3UriOf(Head(l)) \in DynamoDbUris
         THEN S3OnlyUris(Tail(l))
         ELSE <<S3UriOf(Head(l))>> \o S3OnlyUris(Tail(l))

RECURSIVE DynamoDbOnlyEntries(_)
DynamoDbOnlyEntries(l) ==
    IF l = <<>> THEN <<>>
    ELSE IF DynamoDbUriOf(Head(l)) \in S3Uris
         THEN DynamoDbOnlyEntries(Tail(l))
         ELSE <<[uri |-> DynamoDbUriOf(Head(l)), granuleId |-> Head(l).granuleId]>>
              \o DynamoDbOnlyEntries(Tail(l))

\* C1: for listings S and D of one bucket, each strictly ascending by URI, the
\* report returned by createReconciliationReportForBucket has okCount = |S n D|,
\* onlyInS3 = the URIs of S \ D in S's order, and onlyInDynamoDb = the entries
\* of D \ S in D's order, each with its granuleId.
C1_BucketMergeJoin ==
    pc = "bucket_done" =>
        /\ okCount = Cardinality(S3Uris \cap DynamoDbUris)
        /\ onlyInS3 = S3OnlyUris(s3Listing)
        /\ onlyInDynamoDb = DynamoDbOnlyEntries(dynamoDbListing)

\* The scenario of the claim: S = [a, b, d], D = [a, c, d] has returned okCount 2,
\* onlyInS3 = [b] and onlyInDynamoDb = [c].
C1_Witness ==
    /\ pc = "bucket_done"
    /\ s3Listing = <<[Key |-> <<97>>], [Key |-> <<98>>], [Key |-> <<100>>]>>
    /\ Len(dynamoDbListing) = 3
    /\ dynamoDbListing[1].key = <<97>>
    /\ dynamoDbListing[2].key = <<99>>
    /\ dynamoDbListing[3].key = <<100>>
    /\ okCount = 2
    /\ onlyInS3 = <<buildS3Uri(Bucket, <<98>>)>>
    /\ Len(onlyInDynamoDb) = 1
    /\ onlyInDynamoDb[1].uri = buildS3Uri(Bucket, <<99>>)
    /\ onlyInDynamoDb[1].granuleId = dynamoDbListing[2].granuleId

\* ======================================================================
\* reconciliationReportForCollections(recReportParams)
\* ======================================================================
\* lines 293-298
isOneWayReport(reportParams) ==
    \/ TruthyStr(reportParams.startTimestamp)
    \/ TruthyStr(reportParams.endTimestamp)

\* `${name}___${version}`
constructCollectionId(name, version) == name \o <<95, 95, 95>> \o version

\* Array.prototype.sort() of strings: ascending by code units
RECURSIVE InsertSorted(_, _)
InsertSorted(x, l) ==
    IF l = <<>> THEN <<x>>
    ELSE IF StrLess(Head(l), x)
         THEN <<Head(l)>> \o InsertSorted(x, Tail(l))
         ELSE <<x>> \o l
RECURSIVE SortStrings(_)
SortStrings(l) == IF l = <<>> THEN <<>> ELSE InsertSorted(Head(l), SortStrings(Tail(l)))

\* lines 320-339: the ids of the collections Elasticsearch returns, sorted
fetchESCollections(items) ==
    SortStrings([i \in 1..Len(items) |-> constructCollectionId(items[i].name, items[i].version)])

\* the ids of the collections CMR returns, sorted
filterCMRCollections(items) ==
    SortStrings([i \in 1..Len(items) |->
                    constructCollectionId(items[i].umm.ShortName, items[i].umm.Version)])

\* Collections X, Y, Z in version v1, and X in version v2
CollectionNames == {<<88>>, <<89>>, <<90>>}
CollectionKeys ==
    {<<n, <<118, 49>>>> : n \in CollectionNames} \cup {<<<<88>>, <<118, 50>>>>}
EsCollections == {[name |-> k[1], version |-> k[2]] : k \in CollectionKeys}
CmrCollections == {[umm |-> [ShortName |-> k[1], Version |-> k[2]]] : k \in CollectionKeys}

\* No store holds a collection twice.
DistinctSeqs(S, n) ==
    {l \in SeqsUpTo(S, n) : \A i, j \in 1..Len(l) : i /= j => l[i] /= l[j]}

Timestamps == {Undefined, <<50, 48, 50, 48>>}
ReportParams == [startTimestamp : Timestamps, endTimestamp : Timestamps]

CollectionsInit ==
    /\ pc = "collections_start"
    /\ recReportParams \in ReportParams
    /\ cmrCollectionItems \in DistinctSeqs(CmrCollections, MaxCollections)
    /\ esCollectionItems \in DistinctSeqs(EsCollections, MaxCollections)
    /\ oneWayReport = FALSE
    /\ cmrCollectionIds = <<>>
    /\ esCollectionIds = <<>>
    /\ okCollections = <<>>
    /\ collectionsOnlyInCumulus = <<>>
    /\ collectionsOnlyInCmr = <<>>
    /\ nextDbCollectionId = Undefined
    /\ nextCmrCollectionId = Undefined
    /\ BucketIdle
    /\ FilesIdle
    /\ GranulesIdle
    /\ ReportIdle
    /\ LibraryIdle

ArrayFirst(a) == IF a = <<>> THEN Undefined ELSE a[1]

\* lines 426-445: the two sorted lists of ids and their first elements
CollectionsFetch ==
    /\ pc = "collections_start"
    /\ oneWayReport' = isOneWayReport(recReportParams)
    /\ cmrCollectionIds' = filterCMRCollections(cmrCollectionItems)
    /\ esCollectionIds' = fetchESCollections(esCollectionItems)
    /\ okCollections' = <<>>
    /\ collectionsOnlyInCumulus' = <<>>
    /\ collectionsOnlyInCmr' = <<>>
    /\ nextDbCollectionId' = ArrayFirst(esCollectionIds')
    /\ nextCmrCollectionId' = ArrayFirst(cmrCollectionIds')
    /\ pc' = "collections_loop"
    /\ UNCHANGED <<recReportParams, cmrCollectionItems, esCollectionItems>>
    /\ UNCHANGED outsideCollections

\* One iteration that reports a collection found only in CMR whatever the mode.
CollectionsLoopIterationIgnoresOneWay ==
    /\ pc = "collections_loop"
    /\ TruthyStr(nextDbCollectionId) /\ TruthyStr(nextCmrCollectionId)
    /\ IF StrLess(nextDbCollectionId, nextCmrCollectionId)
       THEN /\ esCollectionIds' = Tail(esCollectionIds)
            /\ collectionsOnlyInCumulus' = Append(collectionsOnlyInCumulus, nextDbCollectionId)
            /\ UNCHANGED <<cmrCollectionIds, collectionsOnlyInCmr, okCollections>>
       ELSE IF StrLess(nextCmrCollectionId, nextDbCollectionId)
       THEN /\ collectionsOnlyInCmr' = Append(collectionsOnlyInCmr, nextCmrCollectionId)
            /\ cmrCollectionIds' = Tail(cmrCollectionIds)
            /\ UNCHANGED <<esCollectionIds, collectionsOnlyInCumulus, okCollections>>
       ELSE /\ okCollections' = Append(okCollections, nextDbCollectionId)
            /\ esCollectionIds' = Tail(esCollectionIds)
            /\ cmrCollectionIds' = Tail(cmrCollectionIds)
            /\ UNCHANGED <<collectionsOnlyInCumulus, collectionsOnlyInCmr>>
    /\ nextDbCollectionId' = ArrayFirst(esCollectionIds')
    /\ nextCmrCollectionId' = ArrayFirst(cmrCollectionIds')
    /\ UNCHANGED <<pc, recReportParams, cmrCollectionItems, esCollectionItems, oneWayReport>>
    /\ UNCHANGED outsideCollections

\* One iteration that takes a collection found in both stores off the
\* Elasticsearch list only.
CollectionsLoopIterationKeepsMatched ==
    /\ pc = "collections_loop"
    /\ TruthyStr(nextDbCollectionId) /\ TruthyStr(nextCmrCollectionId)
    /\ IF StrLess(nextDbCollectionId, nextCmrCollectionId)
       THEN /\ esCollectionIds' = Tail(esCollectionIds)
            /\ collectionsOnlyInCumulus' = Append(collectionsOnlyInCumulus, nextDbCollectionId)
            /\ UNCHANGED <<cmrCollectionIds, collectionsOnlyInCmr, okCollections>>
       ELSE IF StrLess(nextCmrCollectionId, nextDbCollectionId)
       THEN /\ collectionsOnlyInCmr' =
                   IF ~oneWayReport
                   THEN Append(collectionsOnlyInCmr, nextCmrCollectionId)
                   ELSE collectionsOnlyInCmr
            /\ cmrCollectionIds' = Tail(cmrCollectionIds)
            /\ UNCHANGED <<esCollectionIds, collectionsOnlyInCumulus, okCollections>>
       ELSE /\ okCollections' = Append(okCollections, nextDbCollectionId)
            /\ esCollectionIds' = Tail(esCollectionIds)
            /\ UNCHANGED <<cmrCollectionIds, collectionsOnlyInCumulus, collectionsOnlyInCmr>>
    /\ nextDbCollectionId' = ArrayFirst(esCollectionIds')
    /\ nextCmrCollectionId' = ArrayFirst(cmrCollectionIds')
    /\ UNCHANGED <<pc, recReportParams, cmrCollectionItems, esCollectionItems, oneWayReport>>
    /\ UNCHANGED outsideCollections

\* lines 447-465: one iteration of the comparison loop
CollectionsLoopIteration ==
    /\ pc = "collections_loop"
    /\ TruthyStr(nextDbCollectionId) /\ TruthyStr(nextCmrCollectionId)
    /\ IF StrLess(nextDbCollectionId, nextCmrCollectionId)
       THEN \* only in the Cumulus database
            /\ esCollectionIds' = Tail(esCollectionIds)
            /\ collectionsOnlyInCumulus' = Append(collectionsOnlyInCumulus, nextDbCollectionId)
            /\ UNCHANGED <<cmrCollectionIds, collectionsOnlyInCmr, okCollections>>
       ELSE IF StrLess(nextCmrCollectionId, nextDbCollectionId)
       THEN \* only in CMR
            /\ collectionsOnlyInCmr' =
                   IF ~oneWayReport
                   THEN Append(collectionsOnlyInCmr, nextCmrCollectionId)
                   ELSE collectionsOnlyInCmr
            /\ cmrCollectionIds' = Tail(cmrCollectionIds)
            /\ UNCHANGED <<esCollectionIds, collectionsOnlyInCumulus, okCollections>>
       ELSE \* in both
            /\ okCollections' = Append(okCollections, nextDbCollectionId)
            /\ esCollectionIds' = Tail(esCollectionIds)
            /\ cmrCollectionIds' = Tail(cmrCollectionIds)
            /\ UNCHANGED <<collectionsOnlyInCumulus, collectionsOnlyInCmr>>
    /\ nextDbCollectionId' = ArrayFirst(esCollectionIds')
    /\ nextCmrCollectionId' = ArrayFirst(cmrCollectionIds')
    /\ UNCHANGED <<pc, recReportParams, cmrCollectionItems, esCollectionItems, oneWayReport>>
    /\ UNCHANGED outsideCollections

\* lines 467-477: what is left of either list is appended, the report returned
CollectionsReturn ==
    /\ pc = "collections_loop"
    /\ ~(TruthyStr(nextDbCollectionId) /\ TruthyStr(nextCmrCollectionId))
    /\ collectionsOnlyInCumulus' = collectionsOnlyInCumulus \o esCollectionIds
    /\ collectionsOnlyInCmr' =
           IF ~oneWayReport
           THEN collectionsOnlyInCmr \o cmrCollectionIds
           ELSE collectionsOnlyInCmr
    /\ pc' = "collections_done"
    /\ UNCHANGED <<recReportParams, cmrCollectionItems, esCollectionItems, oneWayReport,
                   cmrCollectionIds, esCollectionIds, okCollections,
                   nextDbCollectionId, nextCmrCollectionId>>
    /\ UNCHANGED outsideCollections

CollectionsNext ==
    \/ CollectionsFetch
    \/ CollectionsLoopIteration
    \/ CollectionsReturn

SpecCollections == CollectionsInit /\ [][CollectionsNext]_vars

\* ---------------------------------------------------------------- C2
CmrCollectionIdSet ==
    {constructCollectionId(cmrCollectionItems[i].umm.ShortName, cmrCollectionItems[i].umm.Version) :
        i \in 1..Len(cmrCollectionItems)}
EsCollectionIdSet ==
    {constructCollectionId(esCollectionItems[i].name, esCollectionItems[i].version) :
        i \in 1..Len(esCollectionItems)}

\* l lists exactly the strings of T, each once, in ascending order
IsSortedListOf(l, T) ==
    /\ {l[i] : i \in 1..Len(l)} = T
    /\ \A i \in 1..(Len(l) - 1) : StrLess(l[i], l[i + 1])

TwoWay == ~TruthyStr(recReportParams.startTimestamp) /\ ~TruthyStr(recReportParams.endTimestamp)

\* C2: in two-way mode (no startTimestamp, no endTimestamp), with C the ids of
\* the catalog and E those of the index, reconciliationReportForCollections
\* returns okCollections = C n E, onlyInCumulus = E \ C and onlyInCmr = C \ E,
\* each in ascending order.
C2_CollectionsTwoWay ==
    (pc = "collections_done" /\ TwoWay) =>
        /\ IsSortedListOf(okCollections, CmrCollectionIdSet \cap EsCollectionIdSet)
        /\ IsSortedListOf(collectionsOnlyInCumulus, EsCollectionIdSet \ CmrCollectionIdSet)
        /\ IsSortedListOf(collectionsOnlyInCmr, CmrCollectionIdSet \ EsCollectionIdSet)

XV1 == constructCollectionId(<<88>>, <<118, 49>>)
YV1 == constructCollectionId(<<89>>, <<118, 49>>)
ZV1 == constructCollectionId(<<90>>, <<118, 49>>)

\* The scenario of the claim: catalog [X_v1, Y_v1], index [X_v1, Z_v1], two-way.
C2_Witness ==
    /\ pc = "collections_done"
    /\ TwoWay
    /\ CmrCollectionIdSet = {XV1, YV1}
    /\ EsCollectionIdSet = {XV1, ZV1}
    /\ okCollections = <<XV1>>
    /\ collectionsOnlyInCumulus = <<ZV1>>
    /\ collectionsOnlyInCmr = <<YV1>>

\* ---------------------------------------------------------------- C4
\* C4: in one-way mode (startTimestamp or endTimestamp given) the onlyInCmr
\* list of reconciliationReportForCollections is empty throughout the
\* comparison and in the report returned, whatever the two lists hold.
C4_CollectionsOneWay ==
    (pc \in {"collections_loop", "collections_done"} /\ ~TwoWay) =>
        collectionsOnlyInCmr = <<>>

\* One-way, catalog [X_v1, Z_v1], index [Y_v1]: X_v1 is passed over inside the
\* loop, Z_v1 is left when the index list is exhausted.
C4_Witness ==
    /\ pc = "collections_done"
    /\ ~TwoWay
    /\ CmrCollectionIdSet = {XV1, ZV1}
    /\ EsCollectionIdSet = {YV1}
    /\ cmrCollectionIds = <<ZV1>>
    /\ collectionsOnlyInCumulus = <<YV1>>
    /\ collectionsOnlyInCmr = <<>>

\* ======================================================================
\* reconciliationReportForGranuleFiles(params)
\* ======================================================================
PrivateBucket == <<118>>
ProtectedBucket == <<116>>
PublicBucket == <<117>>
\* a bucket the configuration does not list
OtherBucket == <<120>>

\* the bucket configuration: config key, bucket name, type
BucketsConfigJson ==
    {[key |-> <<112, 118>>, name |-> PrivateBucket, type |-> "private"],
     [key |-> <<112, 116>>, name |-> ProtectedBucket, type |-> "protected"],
     [key |-> <<112, 117>>, name |-> PublicBucket, type |-> "public"]}

\* bucketsConfig.key(bucket): the config key of the bucket, undefined when
\* the configuration has no such bucket
bucketsConfigKey(bucket) ==
    IF \E c \in BucketsConfigJson : c.name = bucket
    THEN (CHOOSE c \in BucketsConfigJson : c.name = bucket).key
    ELSE Undefined

\* bucketsConfig.type(bucket), of a configured bucket
bucketsConfigType(bucket) == (CHOOSE c \in BucketsConfigJson : c.name = bucket).type

\* lines 502-506: bucket name -> type
bucketTypes == [b \in {c.name : c \in BucketsConfigJson} |-> bucketsConfigType(b)]

\* process.env.DISTRIBUTION_ENDPOINT
DistEndpoint == <<104, 58, 47, 47, 101>>
\* bucket -> distribution path
distributionBucketMap == [b \in {c.name : c \in BucketsConfigJson} |-> b]

\* The access URL CMR is expected to hold for a file: none for a file that is
\* not in a protected or public bucket, else `${distEndpoint}/${path}/${key}`
\* in distribution form and the s3:// URI in s3 form.
constructOnlineAccessUrl(file, cmrGranuleUrlType) ==
    LET bucketType == IF file.bucket \in DOMAIN bucketTypes
                      THEN bucketTypes[file.bucket]
                      ELSE "undefined"
    IN  IF bucketType \in {"protected", "public"}
        THEN IF cmrGranuleUrlType = "distribution"
             THEN [URL |-> DistEndpoint \o <<47>> \o distributionBucketMap[file.bucket]
                               \o <<47>> \o file.key]
             ELSE [URL |-> buildS3Uri(file.bucket, file.key)]
        ELSE Null

\* lines 499-500
cmrGetDataTypes == {"GET DATA", "GET RELATED VISUALIZATION"}
cmrRelatedDataTypes == {"VIEW RELATED INFORMATION"}

\* url.split('/').pop()
RECURSIVE LastSegment(_)
LastSegment(url) ==
    IF \E i \in 1..Len(url) : url[i] = 47
    THEN LET first == CHOOSE i \in 1..Len(url) :
                          url[i] = 47 /\ \A j \in 1..(i - 1) : url[j] /= 47
         IN  LastSegment(SubSeq(url, first + 1, Len(url)))
    ELSE url

\* An object keyed by fileName is the sequence of its values in key order.
ObjectHas(obj, fileName) == \E i \in 1..Len(obj) : obj[i].fileName = fileName
\* obj[fileName], null when there is no such key
ObjectGet(obj, fileName) ==
    IF ObjectHas(obj, fileName)
    THEN obj[CHOOSE i \in 1..Len(obj) : obj[i].fileName = fileName]
    ELSE Null
\* delete obj[fileName]
ObjectDelete(obj, fileName) ==
    LET Keep(f) == f.fileName /= fileName IN SelectSeq(obj, Keep)

\* lodash keyBy(files, 'fileName'): a key is created where its name first
\* occurs and holds the last file of that name
RECURSIVE keyBy(_, _)
keyBy(files, obj) ==
    IF files = <<>> THEN obj
    ELSE LET f == Head(files)
         IN  keyBy(Tail(files),
                   IF ObjectHas(obj, f.fileName)
                   THEN [i \in 1..Len(obj) |->
                            IF obj[i].fileName = f.fileName THEN f ELSE obj[i]]
                   ELSE Append(obj, f))

\* Local files: f1 in any of the four buckets, f2 in the private or the
\* protected bucket, each under key k/<name>.
FileNames == {<<102, 49>>, <<102, 50>>}
KeyOfFile(fileName) == <<107, 47>> \o fileName
LocalFile(fileName, bucket) ==
    [fileName |-> fileName, bucket |-> bucket, key |-> KeyOfFile(fileName),
     source |-> Undefined]
LocalFiles ==
    {LocalFile(<<102, 49>>, b) :
        b \in {PrivateBucket, ProtectedBucket, PublicBucket, OtherBucket}}
    \cup {LocalFile(<<102, 50>>, b) : b \in {PrivateBucket, ProtectedBucket}}
\* The files of a granule have distinct names.
FileLists ==
    {l \in SeqsUpTo(LocalFiles, MaxFiles) :
        \A i, j \in 1..Len(l) : i /= j => l[i].fileName /= l[j].fileName}

\* The URLs a CMR record may hold for a file name
\* its distribution URL in the protected bucket,
DistributionUrlOf(fileName) ==
    DistEndpoint \o <<47>> \o ProtectedBucket \o <<47>> \o KeyOfFile(fileName)
\* its s3 URI in the public bucket,
S3UrlOf(fileName) == buildS3Uri(PublicBucket, KeyOfFile(fileName))
\* and a URL elsewhere.
ElsewhereUrlOf(fileName) == <<104, 58, 47, 47, 122, 47>> \o fileName
UrlTypes == cmrGetDataTypes \cup cmrRelatedDataTypes \cup {"USE SERVICE API"}
\* RelatedUrls entries: every URL of f1 under every type, two entries for f2,
\* and a download URL for f3, which is never a local file.
RelatedUrlEntries ==
    {[URL |-> u, Type |-> t] :
        u \in {DistributionUrlOf(<<102, 49>>), S3UrlOf(<<102, 49>>),
               ElsewhereUrlOf(<<102, 49>>)},
        t \in UrlTypes}
    \cup {[URL |-> DistributionUrlOf(<<102, 50>>), Type |-> "GET DATA"],
          [URL |-> ElsewhereUrlOf(<<102, 50>>), Type |-> "VIEW RELATED INFORMATION"],
          [URL |-> DistributionUrlOf(<<102, 51>>), Type |-> "GET DATA"]}

GranuleG1 == <<103, 49>>
CollectionId == constructCollectionId(<<88>>, <<118, 49>>)

FilesInit ==
    /\ pc = "files_start"
    /\ filesReturnTo = "files_done"
    /\ \E files \in FileLists :
          granuleInDb = [granuleId |-> GranuleG1, collectionId |-> CollectionId,
                         files |-> files]
    /\ \E urls \in SeqsUpTo(RelatedUrlEntries, MaxUrls) :
          granuleInCmr = [GranuleUR |-> GranuleG1, ShortName |-> <<88>>,
                          Version |-> <<118, 49>>, RelatedUrls |-> urls]
    /\ granuleFiles = <<>>
    /\ fileReport = EmptyReport
    /\ relatedUrlPromises = <<>>
    /\ microtasks = <<>>
    /\ recReportParams = NoParams
    /\ BucketIdle
    /\ CollectionsIdle
    /\ GranulesIdle
    /\ ReportIdle
    /\ LibraryIdle

Resolved == [at |-> "resolved", distributionAccessUrl |-> Null, awaited |-> Null]

\* lines 511-516: the entry is of a type that is checked and its file name is
\* that of a file of obj in a configured bucket
EntersComparison(relatedUrl, obj) ==
    /\ relatedUrl.Type \in cmrGetDataTypes \cup cmrRelatedDataTypes
    /\ ObjectHas(obj, LastSegment(relatedUrl.URL))
    /\ TruthyStr(bucketsConfigKey(ObjectGet(obj, LastSegment(relatedUrl.URL)).bucket))

\* lines 549-556: the entry is reported at once as only in CMR
ReportedAtOnce(relatedUrl, obj) ==
    /\ relatedUrl.Type \in cmrGetDataTypes \cup cmrRelatedDataTypes
    /\ ~EntersComparison(relatedUrl, obj)
    /\ relatedUrl.Type \in cmrGetDataTypes

\* lines 541-545 and 551-555
CmrEntry(relatedUrl) ==
    [URL |-> relatedUrl.URL, Type |-> relatedUrl.Type, GranuleUR |-> granuleInCmr.GranuleUR]

\* lines 491-560, up to the await of Promise.all: RelatedUrls.map() runs every
\* callback to its first await (line 518) or to its end, in order
FilesMapRelatedUrls ==
    /\ pc = "files_start"
    /\ LET obj == keyBy(granuleInDb.files, <<>>)
           urls == granuleInCmr.RelatedUrls
           indices == [i \in 1..Len(urls) |-> i]
           Enters(i) == EntersComparison(urls[i], obj)
           AtOnce(i) == ReportedAtOnce(urls[i], obj)
           reported == SelectSeq(indices, AtOnce)
       IN  /\ granuleFiles' = obj
           /\ relatedUrlPromises' =
                  [i \in 1..Len(urls) |->
                      IF Enters(i)
                      THEN [at |-> "await_distribution",
                            distributionAccessUrl |-> Null,
                            awaited |-> constructOnlineAccessUrl(
                                            ObjectGet(obj, LastSegment(urls[i].URL)),
                                            "distribution")]
                      ELSE Resolved]
           /\ microtasks' = SelectSeq(indices, Enters)
           /\ fileReport' =
                  [okCount |-> 0,
                   onlyInCumulus |-> <<>>,
                   onlyInCmr |-> [k \in 1..Len(reported) |-> CmrEntry(urls[reported[k]])]]
    /\ pc' = "files_await_all"
    /\ UNCHANGED <<filesReturnTo, granuleInDb, granuleInCmr>>
    /\ UNCHANGED outsideFiles

\* lines 518-532: the callback at the head of the microtask queue has its
\* distribution URL and asks for the s3 URL of granuleFiles[urlFileName]
FilesContinueAfterDistributionUrl ==
    /\ pc = "files_await_all"
    /\ microtasks /= <<>>
    /\ relatedUrlPromises[Head(microtasks)].at = "await_distribution"
    /\ LET i == Head(microtasks)
           callback == relatedUrlPromises[i]
           urlFileName == LastSegment(granuleInCmr.RelatedUrls[i].URL)
           file == ObjectGet(granuleFiles, urlFileName)
       IN  IF file = Null
           THEN \* file.bucket of undefined: the callback rejects, Promise.all with it
                /\ relatedUrlPromises' =
                       [relatedUrlPromises EXCEPT ![i] =
                           [at |-> "rejected", distributionAccessUrl |-> callback.awaited,
                            awaited |-> Null]]
                /\ microtasks' = Tail(microtasks)
                /\ pc' = "files_threw"
           ELSE /\ relatedUrlPromises' =
                       [relatedUrlPromises EXCEPT ![i] =
                           [at |-> "await_s3", distributionAccessUrl |-> callback.awaited,
                            awaited |-> constructOnlineAccessUrl(file, "s3")]]
                /\ microtasks' = Append(Tail(microtasks), i)
                /\ pc' = pc
    /\ UNCHANGED <<filesReturnTo, granuleInDb, granuleInCmr, granuleFiles, fileReport>>
    /\ UNCHANGED outsideFiles

\* The end of a callback that never compares the URL with the s3 form.
FilesContinueAfterS3UrlWithoutS3Form ==
    /\ pc = "files_await_all"
    /\ microtasks /= <<>>
    /\ relatedUrlPromises[Head(microtasks)].at = "await_s3"
    /\ LET i == Head(microtasks)
           callback == relatedUrlPromises[i]
           relatedUrl == granuleInCmr.RelatedUrls[i]
           urlFileName == LastSegment(relatedUrl.URL)
           distributionAccessUrl == callback.distributionAccessUrl
       IN  /\ fileReport' =
                  IF TruthyObj(distributionAccessUrl)
                     /\ relatedUrl.URL = distributionAccessUrl.URL
                  THEN [fileReport EXCEPT !.okCount = @ + 1]
                  ELSE IF relatedUrl.Type \in cmrGetDataTypes
                  THEN [fileReport EXCEPT !.onlyInCmr = Append(@, CmrEntry(relatedUrl))]
                  ELSE fileReport
           /\ granuleFiles' = ObjectDelete(granuleFiles, urlFileName)
           /\ relatedUrlPromises' = [relatedUrlPromises EXCEPT ![i] = Resolved]
           /\ microtasks' = Tail(microtasks)
    /\ UNCHANGED <<pc, filesReturnTo, granuleInDb, granuleInCmr>>
    /\ UNCHANGED outsideFiles

\* The end of a callback that reports every unmatched URL, whatever its type.
FilesContinueAfterS3UrlAnyType ==
    /\ pc = "files_await_all"
    /\ microtasks /= <<>>
    /\ relatedUrlPromises[Head(microtasks)].at = "await_s3"
    /\ LET i == Head(microtasks)
           callback == relatedUrlPromises[i]
           relatedUrl == granuleInCmr.RelatedUrls[i]
           urlFileName == LastSegment(relatedUrl.URL)
           distributionAccessUrl == callback.distributionAccessUrl
           s3AccessUrl == callback.awaited
       IN  /\ fileReport' =
                  IF TruthyObj(distributionAccessUrl)
                     /\ relatedUrl.URL = distributionAccessUrl.URL
                  THEN [fileReport EXCEPT !.okCount = @ + 1]
                  ELSE IF TruthyObj(s3AccessUrl) /\ relatedUrl.URL = s3AccessUrl.URL
                  THEN [fileReport EXCEPT !.okCount = @ + 1]
                  ELSE [fileReport EXCEPT !.onlyInCmr = Append(@, CmrEntry(relatedUrl))]
           /\ granuleFiles' = ObjectDelete(granuleFiles, urlFileName)
           /\ relatedUrlPromises' = [relatedUrlPromises EXCEPT ![i] = Resolved]
           /\ microtasks' = Tail(microtasks)
    /\ UNCHANGED <<pc, filesReturnTo, granuleInDb, granuleInCmr>>
    /\ UNCHANGED outsideFiles

\* lines 526-548: the callback at the head of the microtask queue has both
\* URLs, compares, and deletes granuleFiles[urlFileName]
FilesContinueAfterS3Url ==
    /\ pc = "files_await_all"
    /\ microtasks /= <<>>
    /\ relatedUrlPromises[Head(microtasks)].at = "await_s3"
    /\ LET i == Head(microtasks)
           callback == relatedUrlPromises[i]
           relatedUrl == granuleInCmr.RelatedUrls[i]
           urlFileName == LastSegment(relatedUrl.URL)
           distributionAccessUrl == callback.distributionAccessUrl
           s3AccessUrl == callback.awaited
       IN  /\ fileReport' =
                  IF TruthyObj(distributionAccessUrl)
                     /\ relatedUrl.URL = distributionAccessUrl.URL
                  THEN [fileReport EXCEPT !.okCount = @ + 1]
                  ELSE IF TruthyObj(s3AccessUrl) /\ relatedUrl.URL = s3AccessUrl.URL
                  THEN [fileReport EXCEPT !.okCount = @ + 1]
                  ELSE IF relatedUrl.Type \in cmrGetDataTypes
                  THEN [fileReport EXCEPT !.onlyInCmr = Append(@, CmrEntry(relatedUrl))]
                  ELSE fileReport
           /\ granuleFiles' = ObjectDelete(granuleFiles, urlFileName)
           /\ relatedUrlPromises' = [relatedUrlPromises EXCEPT ![i] = Resolved]
           /\ microtasks' = Tail(microtasks)
    /\ UNCHANGED <<pc, filesReturnTo, granuleInDb, granuleInCmr>>
    /\ UNCHANGED outsideFiles

\* lines 565-566
IsPrivateFile(file) ==
    /\ TruthyStr(bucketsConfigKey(file.bucket))
    /\ bucketsConfigType(file.bucket) = "private"

\* lines 569-578
CumulusEntry(file) ==
    [fileName |-> file.fileName,
     uri |-> IF TruthyStr(file.bucket) /\ TruthyStr(file.key)
             THEN buildS3Uri(file.bucket, file.key)
             ELSE file.source,
     granuleId |-> granuleInDb.granuleId]

\* The remaining files, with those of protected buckets counted as ok too.
FilesReturnCountsProtected ==
    /\ pc = "files_await_all"
    /\ microtasks = <<>>
    /\ LET Ok(file) == TruthyStr(bucketsConfigKey(file.bucket))
                       /\ bucketsConfigType(file.bucket) /= "public"
           NotOk(file) == ~Ok(file)
           ok == SelectSeq(granuleFiles, Ok)
           notOk == SelectSeq(granuleFiles, NotOk)
       IN  fileReport' =
               [fileReport EXCEPT
                   !.okCount = @ + Len(ok),
                   !.onlyInCumulus = @ \o [k \in 1..Len(notOk) |-> CumulusEntry(notOk[k])]]
    /\ pc' = filesReturnTo
    /\ UNCHANGED <<filesReturnTo, granuleInDb, granuleInCmr, granuleFiles,
                   relatedUrlPromises, microtasks>>
    /\ UNCHANGED outsideFiles

\* lines 560-581: every callback has resolved; the files still in granuleFiles
\* are counted as ok when private and reported as only in Cumulus otherwise,
\* and the report is returned
FilesReturn ==
    /\ pc = "files_await_all"
    /\ microtasks = <<>>
    /\ LET NotPrivate(file) == ~IsPrivateFile(file)
           private == SelectSeq(granuleFiles, IsPrivateFile)
           others == SelectSeq(granuleFiles, NotPrivate)
       IN  fileReport' =
               [fileReport EXCEPT
                   !.okCount = @ + Len(private),
                   !.onlyInCumulus = @ \o [k \in 1..Len(others) |-> CumulusEntry(others[k])]]
    /\ pc' = filesReturnTo
    /\ UNCHANGED <<filesReturnTo, granuleInDb, granuleInCmr, granuleFiles,
                   relatedUrlPromises, microtasks>>
    /\ UNCHANGED outsideFiles

FilesNext ==
    \/ FilesMapRelatedUrls
    \/ FilesContinueAfterDistributionUrl
    \/ FilesContinueAfterS3Url
    \/ FilesReturn

SpecFiles == FilesInit /\ [][FilesNext]_vars

\* ------------------------------------------------------- C7, C8, C9, C10
\* What the claims speak of, in terms of the two arguments alone.
NumFiles == Len(granuleInDb.files)
NumUrls == Len(granuleInCmr.RelatedUrls)
UrlEntry(i) == granuleInCmr.RelatedUrls[i]
\* entry i carries the name of local file k
Names(i, k) == LastSegment(UrlEntry(i).URL) = granuleInDb.files[k].fileName
IsDownload(i) == UrlEntry(i).Type \in {"GET DATA", "GET RELATED VISUALIZATION"}
IsRelatedInformation(i) == UrlEntry(i).Type = "VIEW RELATED INFORMATION"
InConfiguredBucket(k) ==
    \E c \in BucketsConfigJson : c.name = granuleInDb.files[k].bucket
InBucketOfType(k, type) ==
    \E c \in BucketsConfigJson : c.name = granuleInDb.files[k].bucket /\ c.type = type
\* the URL of entry i is the expected access URL of file k in one of its forms
UrlIsExpected(i, k) ==
    \E form \in {"distribution", "s3"} :
        LET expected == constructOnlineAccessUrl(granuleInDb.files[k], form)
        IN  expected /= Null /\ UrlEntry(i).URL = expected.URL
\* entry i is of a checked role, names a local file in a configured bucket and
\* carries its expected URL
IsMatch(i) ==
    /\ IsDownload(i) \/ IsRelatedInformation(i)
    /\ \E k \in 1..NumFiles : Names(i, k) /\ InConfiguredBucket(k) /\ UrlIsExpected(i, k)
Occurrences(list, x) == Cardinality({n \in 1..Len(list) : list[n] = x})
CumulusEntriesOf(k) ==
    {n \in 1..Len(fileReport.onlyInCumulus) :
        fileReport.onlyInCumulus[n].fileName = granuleInDb.files[k].fileName}

\* C7: when reconciliationReportForGranuleFiles returns (the files of the
\* granule having distinct names), a local file named by no RelatedUrls entry
\* is not in onlyInCumulus if it is in a private bucket, and is in
\* onlyInCumulus exactly once, with its s3 URI and granule id, if it is in any
\* other bucket; and okCount is the number of matching entries plus one for
\* every private file named by no entry of a checked role.
C7_UnreferencedFiles ==
    pc = "files_done" =>
        /\ \A k \in 1..NumFiles :
              (\A i \in 1..NumUrls : ~Names(i, k)) =>
                  IF InBucketOfType(k, "private")
                  THEN CumulusEntriesOf(k) = {}
                  ELSE /\ Cardinality(CumulusEntriesOf(k)) = 1
                       /\ \A n \in CumulusEntriesOf(k) :
                             fileReport.onlyInCumulus[n] =
                                 [fileName |-> granuleInDb.files[k].fileName,
                                  uri |-> buildS3Uri(granuleInDb.files[k].bucket,
                                                     granuleInDb.files[k].key),
                                  granuleId |-> granuleInDb.granuleId]
        /\ fileReport.okCount =
              Cardinality({i \in 1..NumUrls : IsMatch(i)})
              + Cardinality({k \in 1..NumFiles :
                    /\ InBucketOfType(k, "private")
                    /\ \A i \in 1..NumUrls :
                          ~(Names(i, k) /\ (IsDownload(i) \/ IsRelatedInformation(i)))})

\* A private and a protected file, neither named by the one entry of the CMR
\* record: the private one counted, the protected one reported.
C7_Witness ==
    /\ pc = "files_done"
    /\ NumFiles = 2
    /\ NumUrls = 1
    /\ InBucketOfType(1, "private")
    /\ InBucketOfType(2, "protected")
    /\ \A k \in 1..2 : ~Names(1, k)
    /\ fileReport.okCount = 1
    /\ Len(fileReport.onlyInCumulus) = 1
    /\ fileReport.onlyInCumulus[1].fileName = granuleInDb.files[2].fileName

\* C8 (state part): in the report returned, an entry that matches is not in
\* onlyInCmr and the file it names is not in onlyInCumulus; local files
\* {f1: protected, f2: private} with one download URL that is f1's expected
\* address give okCount = 2, onlyInCumulus = [] and onlyInCmr = [].
C8_MatchedNotReported ==
    pc = "files_done" =>
        /\ \A i \in 1..NumUrls :
              IsMatch(i) =>
                  /\ \A n \in 1..Len(fileReport.onlyInCmr) :
                        fileReport.onlyInCmr[n].URL /= UrlEntry(i).URL
                  /\ \A k \in 1..NumFiles : Names(i, k) => CumulusEntriesOf(k) = {}
        /\ ( /\ granuleInDb.files = <<LocalFile(<<102, 49>>, ProtectedBucket),
                                      LocalFile(<<102, 50>>, PrivateBucket)>>
             /\ NumUrls = 1
             /\ IsDownload(1)
             /\ UrlIsExpected(1, 1) )
           => fileReport = [okCount |-> 2, onlyInCumulus |-> <<>>, onlyInCmr |-> <<>>]

\* C8 (step part): the step that ends the callback of a matching entry adds
\* one to okCount and leaves onlyInCmr and onlyInCumulus as they are.
C8_MatchCountsOne ==
    ( /\ pc = "files_await_all"
      /\ microtasks /= <<>>
      /\ relatedUrlPromises[Head(microtasks)].at = "await_s3"
      /\ IsMatch(Head(microtasks)) )
    => /\ fileReport'.okCount = fileReport.okCount + 1
       /\ fileReport'.onlyInCmr = fileReport.onlyInCmr
       /\ fileReport'.onlyInCumulus = fileReport.onlyInCumulus

\* C8: a RelatedUrls entry of a download or related-information role that
\* names a local file in a configured bucket and carries its expected access
\* URL, in distribution or in s3 form, adds one to okCount, and neither the URL
\* nor the file is reported.
C8_UrlMatch == [] C8_MatchedNotReported /\ [][C8_MatchCountsOne]_vars

\* The scenario has returned, and so has a match by the s3 form.
C8_Witness ==
    /\ pc = "files_done"
    /\ granuleInDb.files = <<LocalFile(<<102, 49>>, ProtectedBucket),
                             LocalFile(<<102, 50>>, PrivateBucket)>>
    /\ granuleInCmr.RelatedUrls =
           <<[URL |-> DistributionUrlOf(<<102, 49>>), Type |-> "GET DATA"]>>
    /\ fileReport = [okCount |-> 2, onlyInCumulus |-> <<>>, onlyInCmr |-> <<>>]

\* entry i is to be reported as only in CMR
IsOnlyInCmr(i) ==
    /\ IsDownload(i)
    /\ \/ \A k \in 1..NumFiles : ~(Names(i, k) /\ InConfiguredBucket(k))
       \/ \E k \in 1..NumFiles :
             Names(i, k) /\ InConfiguredBucket(k) /\ ~UrlIsExpected(i, k)

\* C9: the onlyInCmr list returned holds (URL, Type, GranuleUR) of a
\* RelatedUrls entry exactly when the entry has a download role and either no
\* local file in a configured bucket has its file name or that file's expected
\* URLs both differ from the entry's URL, as many times as there are such
\* entries; entries of any other type are never in it.
C9_OnlyInCmr ==
    pc = "files_done" =>
        /\ \A n \in 1..Len(fileReport.onlyInCmr) :
              \E i \in 1..NumUrls :
                  IsOnlyInCmr(i) /\ fileReport.onlyInCmr[n] = CmrEntry(UrlEntry(i))
        /\ \A i \in 1..NumUrls :
              IsOnlyInCmr(i) =>
                  Occurrences(fileReport.onlyInCmr, CmrEntry(UrlEntry(i)))
                      = Cardinality({j \in 1..NumUrls :
                            IsOnlyInCmr(j) /\ UrlEntry(j) = UrlEntry(i)})
        /\ \A i \in 1..NumUrls :
              ~IsDownload(i) =>
                  \A n \in 1..Len(fileReport.onlyInCmr) :
                      fileReport.onlyInCmr[n].Type /= UrlEntry(i).Type

\* A download URL for a file name with no local file is reported, and so is a
\* download URL that names a local file but is not its expected URL, while a
\* related-information URL in the same case is not.
C9_Witness ==
    /\ pc = "files_done"
    /\ granuleInDb.files = <<LocalFile(<<102, 49>>, ProtectedBucket)>>
    /\ granuleInCmr.RelatedUrls =
           <<[URL |-> ElsewhereUrlOf(<<102, 49>>), Type |-> "GET DATA"],
             [URL |-> DistributionUrlOf(<<102, 50>>), Type |-> "GET DATA"]>>
    /\ Len(fileReport.onlyInCmr) = 2
    /\ fileReport.onlyInCmr[1].URL = DistributionUrlOf(<<102, 50>>)
    /\ fileReport.onlyInCmr[2].URL = ElsewhereUrlOf(<<102, 49>>)

\* C10: for a granule whose local files have distinct names, in the report
\* returned every local file that no matching entry names is counted in
\* okCount if it is in a private bucket and is otherwise in onlyInCumulus
\* exactly once, also when an entry that matches neither expected URL names it.
C10_NoFileDropped ==
    pc = "files_done" =>
        /\ \A k \in 1..NumFiles :
              (~InBucketOfType(k, "private")
               /\ \A i \in 1..NumUrls : ~(IsMatch(i) /\ Names(i, k)))
                  => Cardinality(CumulusEntriesOf(k)) = 1
        /\ fileReport.okCount =
              Cardinality({i \in 1..NumUrls : IsMatch(i)})
              + Cardinality({k \in 1..NumFiles :
                    /\ InBucketOfType(k, "private")
                    /\ \A i \in 1..NumUrls : ~(IsMatch(i) /\ Names(i, k))})

\* ======================================================================
\* reconciliationReportForGranules(params)
\* ======================================================================
\* Granules g1, g2, g3 of the collection; what each store holds for a granule
\* is fixed:
\*   g1  files f1 (protected) and f2 (private); CMR has f1's distribution URL
\*   g2  file f1 (public); CMR has a download URL for f3 only
\*   g3  no files, no URLs
GranuleIds == {<<103, 49>>, <<103, 50>>, <<103, 51>>}

DbFilesOf(granuleId) ==
    IF granuleId = <<103, 49>>
    THEN <<LocalFile(<<102, 49>>, ProtectedBucket), LocalFile(<<102, 50>>, PrivateBucket)>>
    ELSE IF granuleId = <<103, 50>>
    THEN <<LocalFile(<<102, 49>>, PublicBucket)>>
    ELSE <<>>

CmrUrlsOf(granuleId) ==
    IF granuleId = <<103, 49>>
    THEN <<[URL |-> DistributionUrlOf(<<102, 49>>), Type |-> "GET DATA"]>>
    ELSE IF granuleId = <<103, 50>>
    THEN <<[URL |-> DistributionUrlOf(<<102, 51>>), Type |-> "GET DATA"]>>
    ELSE <<>>

EsGranules == {[granuleId |-> g, files |-> DbFilesOf(g)] : g \in GranuleIds}
CmrGranules ==
    {[umm |-> [GranuleUR |-> g,
               CollectionReference |-> [ShortName |-> <<88>>, Version |-> <<118, 49>>],
               RelatedUrls |-> CmrUrlsOf(g)]] : g \in GranuleIds}

GranulesInit ==
    /\ pc = "granules_start"
    /\ recReportParams \in ReportParams
    /\ esGranules \in SeqsUpTo(EsGranules, MaxGranules)
    /\ cmrGranules \in SeqsUpTo(CmrGranules, MaxGranules)
    /\ esGranulesIterator = esGranules
    /\ cmrGranulesIterator = cmrGranules
    /\ oneWay = FALSE
    /\ granulesReport = EmptyReport
    /\ filesReport = EmptyReport
    /\ nextDbItem = Null
    /\ nextCmrItem = Null
    /\ BucketIdle
    /\ CollectionsIdle
    /\ FilesIdle
    /\ ReportIdle
    /\ LibraryIdle

\* lines 604-635: the two iterators, the empty reports and the first peeks
GranulesFirstPeek ==
    /\ pc = "granules_start"
    /\ oneWay' = isOneWayReport(recReportParams)
    /\ granulesReport' = EmptyReport
    /\ filesReport' = EmptyReport
    /\ nextDbItem' = QueuePeek(esGranulesIterator)
    /\ nextCmrItem' = QueuePeek(cmrGranulesIterator)
    /\ pc' = "granules_loop"
    /\ UNCHANGED <<esGranules, cmrGranules, esGranulesIterator, cmrGranulesIterator>>
    /\ UNCHANGED outsideGranules

\* A granule found only in Cumulus passed over without being reported.
GranuleOnlyInCumulusUnreported ==
    /\ esGranulesIterator' = QueueShift(esGranulesIterator)
    /\ nextDbItem' = QueuePeek(esGranulesIterator')
    /\ nextCmrItem' = QueuePeek(cmrGranulesIterator)
    /\ UNCHANGED <<pc, esGranules, cmrGranules, cmrGranulesIterator, oneWay,
                   granulesReport, filesReport>>
    /\ UNCHANGED outsideGranules

\* A granule only in the Cumulus database is reported in two-way mode alone.
GranuleOnlyInCumulusTwoWayOnly ==
    /\ granulesReport' =
           IF ~oneWay
           THEN [granulesReport EXCEPT !.onlyInCumulus =
                    Append(@, [granuleId |-> nextDbItem.granuleId,
                               collectionId |-> CollectionId])]
           ELSE granulesReport
    /\ esGranulesIterator' = QueueShift(esGranulesIterator)
    /\ nextDbItem' = QueuePeek(esGranulesIterator')
    /\ nextCmrItem' = QueuePeek(cmrGranulesIterator)
    /\ UNCHANGED <<pc, esGranules, cmrGranules, cmrGranulesIterator, oneWay, filesReport>>
    /\ UNCHANGED outsideGranules

\* lines 641-647, 685: the granule is only in the Cumulus database
GranuleOnlyInCumulus ==
    /\ granulesReport' =
           [granulesReport EXCEPT !.onlyInCumulus =
               Append(@, [granuleId |-> nextDbItem.granuleId, collectionId |-> CollectionId])]
    /\ esGranulesIterator' = QueueShift(esGranulesIterator)
    /\ nextDbItem' = QueuePeek(esGranulesIterator')
    /\ nextCmrItem' = QueuePeek(cmrGranulesIterator)
    /\ UNCHANGED <<pc, esGranules, cmrGranules, cmrGranulesIterator, oneWay, filesReport>>
    /\ UNCHANGED outsideGranules

\* A granule found only in CMR reported whatever the mode.
GranuleOnlyInCmrIgnoresOneWay ==
    /\ granulesReport' =
           [granulesReport EXCEPT !.onlyInCmr =
               Append(@, [GranuleUR |-> nextCmrItem.umm.GranuleUR,
                          ShortName |-> nextCmrItem.umm.CollectionReference.ShortName,
                          Version |-> nextCmrItem.umm.CollectionReference.Version])]
    /\ cmrGranulesIterator' = QueueShift(cmrGranulesIterator)
    /\ nextDbItem' = QueuePeek(esGranulesIterator)
    /\ nextCmrItem' = QueuePeek(cmrGranulesIterator')
    /\ UNCHANGED <<pc, esGranules, cmrGranules, esGranulesIterator, oneWay, filesReport>>
    /\ UNCHANGED outsideGranules

\* lines 648-657, 685: the granule is only in CMR
GranuleOnlyInCmr ==
    /\ granulesReport' =
           IF ~oneWay
           THEN [granulesReport EXCEPT !.onlyInCmr =
                    Append(@, [GranuleUR |-> nextCmrItem.umm.GranuleUR,
                               ShortName |-> nextCmrItem.umm.CollectionReference.ShortName,
                               Version |-> nextCmrItem.umm.CollectionReference.Version])]
           ELSE granulesReport
    /\ cmrGranulesIterator' = QueueShift(cmrGranulesIterator)
    /\ nextDbItem' = QueuePeek(esGranulesIterator)
    /\ nextCmrItem' = QueuePeek(cmrGranulesIterator')
    /\ UNCHANGED <<pc, esGranules, cmrGranules, esGranulesIterator, oneWay, filesReport>>
    /\ UNCHANGED outsideGranules

\* The granule is in both and the next pair is peeked while its files are
\* still to be compared.
GranuleInBothPeeksAhead ==
    /\ granulesReport' = [granulesReport EXCEPT !.okCount = @ + 1]
    /\ granuleInDb' = [granuleId |-> nextDbItem.granuleId,
                       collectionId |-> CollectionId,
                       files |-> nextDbItem.files]
    /\ granuleInCmr' = [GranuleUR |-> nextCmrItem.umm.GranuleUR,
                        ShortName |-> nextCmrItem.umm.CollectionReference.ShortName,
                        Version |-> nextCmrItem.umm.CollectionReference.Version,
                        RelatedUrls |-> nextCmrItem.umm.RelatedUrls]
    /\ esGranulesIterator' = QueueShift(esGranulesIterator)
    /\ cmrGranulesIterator' = QueueShift(cmrGranulesIterator)
    /\ nextDbItem' = QueuePeek(esGranulesIterator')
    /\ nextCmrItem' = QueuePeek(cmrGranulesIterator')
    /\ pc' = "files_start"
    /\ filesReturnTo' = "granules_after_files"
    /\ UNCHANGED <<esGranules, cmrGranules, oneWay, filesReport>>
    /\ UNCHANGED <<granuleFiles, fileReport, relatedUrlPromises, microtasks>>
    /\ UNCHANGED <<recReportParams, bucketVars, collectionVars, reportVars, libraryVars>>

\* lines 658-679: the granule is in both; both iterators advance and the
\* files of the granule are compared at once
GranuleInBoth ==
    /\ granulesReport' = [granulesReport EXCEPT !.okCount = @ + 1]
    /\ granuleInDb' = [granuleId |-> nextDbItem.granuleId,
                       collectionId |-> CollectionId,
                       files |-> nextDbItem.files]
    /\ granuleInCmr' = [GranuleUR |-> nextCmrItem.umm.GranuleUR,
                        ShortName |-> nextCmrItem.umm.CollectionReference.ShortName,
                        Version |-> nextCmrItem.umm.CollectionReference.Version,
                        RelatedUrls |-> nextCmrItem.umm.RelatedUrls]
    /\ esGranulesIterator' = QueueShift(esGranulesIterator)
    /\ cmrGranulesIterator' = QueueShift(cmrGranulesIterator)
    /\ pc' = "files_start"
    /\ filesReturnTo' = "granules_after_files"
    /\ UNCHANGED <<esGranules, cmrGranules, oneWay, filesReport, nextDbItem, nextCmrItem>>
    /\ UNCHANGED <<granuleFiles, fileReport, relatedUrlPromises, microtasks>>
    /\ UNCHANGED <<recReportParams, bucketVars, collectionVars, reportVars, libraryVars>>

\* lines 637-685: one iteration of the comparison loop
GranulesLoopIteration ==
    /\ pc = "granules_loop"
    /\ TruthyObj(nextDbItem) /\ TruthyObj(nextCmrItem)
    /\ IF StrLess(nextDbItem.granuleId, nextCmrItem.umm.GranuleUR)
       THEN GranuleOnlyInCumulus
       ELSE IF StrLess(nextCmrItem.umm.GranuleUR, nextDbItem.granuleId)
       THEN GranuleOnlyInCmr
       ELSE GranuleInBoth

\* lines 677-685: the file report of the granule is added to filesReport and
\* the next pair is peeked
GranulesAfterFiles ==
    /\ pc = "granules_after_files"
    /\ filesReport' =
           [okCount |-> filesReport.okCount + fileReport.okCount,
            onlyInCumulus |-> filesReport.onlyInCumulus \o fileReport.onlyInCumulus,
            onlyInCmr |-> filesReport.onlyInCmr \o fileReport.onlyInCmr]
    /\ nextDbItem' = QueuePeek(esGranulesIterator)
    /\ nextCmrItem' = QueuePeek(cmrGranulesIterator)
    /\ pc' = "granules_loop"
    /\ UNCHANGED <<esGranules, cmrGranules, esGranulesIterator, cmrGranulesIterator,
                   oneWay, granulesReport>>
    /\ UNCHANGED outsideGranules

\* line 637: the loop ends when either peek came back empty
GranulesLoopExit ==
    /\ pc = "granules_loop"
    /\ ~(TruthyObj(nextDbItem) /\ TruthyObj(nextCmrItem))
    /\ pc' = "granules_drain_es"
    /\ UNCHANGED granuleVars
    /\ UNCHANGED outsideGranules

\* lines 689-695: the remaining granules of the index
GranulesDrainEs ==
    /\ pc = "granules_drain_es"
    /\ TruthyObj(QueuePeek(esGranulesIterator))
    /\ granulesReport' =
           [granulesReport EXCEPT !.onlyInCumulus =
               Append(@, [granuleId |-> QueuePeek(esGranulesIterator).granuleId,
                          collectionId |-> CollectionId])]
    /\ esGranulesIterator' = QueueShift(esGranulesIterator)
    /\ UNCHANGED <<pc, esGranules, cmrGranules, cmrGranulesIterator, oneWay, filesReport,
                   nextDbItem, nextCmrItem>>
    /\ UNCHANGED outsideGranules

GranulesDrainEsExit ==
    /\ pc = "granules_drain_es"
    /\ ~TruthyObj(QueuePeek(esGranulesIterator))
    /\ pc' = "granules_drain_cmr"
    /\ UNCHANGED granuleVars
    /\ UNCHANGED outsideGranules

\* lines 698-706: in two-way mode, the remaining granules of CMR; ShortName
\* and Version are read from nextCmrItem
GranulesDrainCmr ==
    /\ pc = "granules_drain_cmr"
    /\ ~oneWay
    /\ TruthyObj(QueuePeek(cmrGranulesIterator))
    /\ granulesReport' =
           [granulesReport EXCEPT !.onlyInCmr =
               Append(@, [GranuleUR |-> QueuePeek(cmrGranulesIterator).umm.GranuleUR,
                          ShortName |-> nextCmrItem.umm.CollectionReference.ShortName,
                          Version |-> nextCmrItem.umm.CollectionReference.Version])]
    /\ cmrGranulesIterator' = QueueShift(cmrGranulesIterator)
    /\ UNCHANGED <<pc, esGranules, cmrGranules, esGranulesIterator, oneWay, filesReport,
                   nextDbItem, nextCmrItem>>
    /\ UNCHANGED outsideGranules

\* lines 698-712: both reports are returned
GranulesReturn ==
    /\ pc = "granules_drain_cmr"
    /\ oneWay \/ ~TruthyObj(QueuePeek(cmrGranulesIterator))
    /\ pc' = "granules_done"
    /\ UNCHANGED granuleVars
    /\ UNCHANGED outsideGranules

GranulesNext ==
    \/ GranulesFirstPeek
    \/ GranulesLoopIteration
    \/ GranulesAfterFiles
    \/ GranulesLoopExit
    \/ GranulesDrainEs
    \/ GranulesDrainEsExit
    \/ GranulesDrainCmr
    \/ GranulesReturn
    \/ FilesMapRelatedUrls
    \/ FilesContinueAfterDistributionUrl
    \/ FilesContinueAfterS3Url
    \/ FilesReturn

SpecGranules == GranulesInit /\ [][GranulesNext]_vars

\* ---------------------------------------------------------------- C3
EsGranuleIdList == [n \in 1..Len(esGranules) |-> esGranules[n].granuleId]
CmrGranuleIdList == [n \in 1..Len(cmrGranules) |-> cmrGranules[n].umm.GranuleUR]
OnlyInCumulusIdList ==
    [n \in 1..Len(granulesReport.onlyInCumulus) |-> granulesReport.onlyInCumulus[n].granuleId]
OnlyInCmrIdList ==
    [n \in 1..Len(granulesReport.onlyInCmr) |-> granulesReport.onlyInCmr[n].GranuleUR]

\* C3: in two-way mode, whatever the two granule cursors of the collection
\* yield, when reconciliationReportForGranules returns
\* |index granules| = okCount + |onlyInCumulus| and
\* |catalog granules| = okCount + |onlyInCmr|, and for every granule id the
\* index granules not reported in onlyInCumulus are as many as the catalog
\* granules not reported in onlyInCmr (the matched ones): nothing is reported
\* twice and nothing is dropped.
C3_GranulesAccounted ==
    (pc = "granules_done" /\ TwoWay) =>
        /\ Len(esGranules) = granulesReport.okCount + Len(granulesReport.onlyInCumulus)
        /\ Len(cmrGranules) = granulesReport.okCount + Len(granulesReport.onlyInCmr)
        /\ \A g \in GranuleIds :
              /\ Occurrences(OnlyInCumulusIdList, g) <= Occurrences(EsGranuleIdList, g)
              /\ Occurrences(OnlyInCmrIdList, g) <= Occurrences(CmrGranuleIdList, g)
              /\ Occurrences(EsGranuleIdList, g) - Occurrences(OnlyInCumulusIdList, g)
                    = Occurrences(CmrGranuleIdList, g) - Occurrences(OnlyInCmrIdList, g)

\* Two-way, index [g1, g2], catalog [g2, g3]: one match, one granule on each side.
C3_Witness ==
    /\ pc = "granules_done"
    /\ TwoWay
    /\ EsGranuleIdList = <<<<103, 49>>, <<103, 50>>>>
    /\ CmrGranuleIdList = <<<<103, 50>>, <<103, 51>>>>
    /\ granulesReport.okCount = 1
    /\ OnlyInCumulusIdList = <<<<103, 49>>>>
    /\ OnlyInCmrIdList = <<<<103, 51>>>>

\* ---------------------------------------------------------------- C5
InFileReconciliation == pc \in {"files_start", "files_await_all", "granules_after_files"}

\* C5: in one-way mode granulesReport.onlyInCmr stays empty whatever the
\* cursors yield, and reconciliationReportForGranuleFiles only ever runs for a
\* granule that the index yielded too, on the index's and the catalog's record
\* of the same granule id.
C5_GranulesOneWay ==
    ~TwoWay =>
        /\ granulesReport.onlyInCmr = <<>>
        /\ InFileReconciliation =>
              /\ granuleInCmr.GranuleUR = granuleInDb.granuleId
              /\ \E n \in 1..Len(esGranules) : esGranules[n].granuleId = granuleInCmr.GranuleUR

\* One-way, index [g2], catalog [g1, g2, g3]: g1 is passed over inside the
\* loop, g2 is matched and its files compared, and g3 is left in the catalog
\* cursor when the function returns.
C5_Witness ==
    /\ pc = "granules_done"
    /\ ~TwoWay
    /\ EsGranuleIdList = <<<<103, 50>>>>
    /\ CmrGranuleIdList = <<<<103, 49>>, <<103, 50>>, <<103, 51>>>>
    /\ Len(cmrGranulesIterator) = 1
    /\ granuleInCmr.GranuleUR = <<103, 50>>
    /\ granulesReport = [okCount |-> 1, onlyInCumulus |-> <<>>, onlyInCmr |-> <<>>]

\* ---------------------------------------------------------------- C6
\* C6: in one-way mode the files report returned by
\* reconciliationReportForGranules has an empty onlyInCmr list.
C6_FilesOneWay ==
    (pc = "granules_done" /\ ~TwoWay) => filesReport.onlyInCmr = <<>>

\* ======================================================================
\* handler(event), normalizeEvent(event), processRequest(params),
\* createReconciliationReport(recReportParams) and
\* reconciliationReportForCumulusCMR(params)
\* ======================================================================
\* process.env.system_bucket ("sb") and process.env.stackName ("st")
SystemBucket == <<115, 98>>
StackName == <<115, 116>>

\* Date inputs of a request: "2020" parses, "x" does not, "" is falsy.
ValidDate == <<50, 48, 50, 48>>
UnparsableDate == <<120>>
EmptyString == <<>>
\* new Date(dateable).valueOf() is NaN
IsNaNDate(dateable) == dateable /= ValidDate
\* new Date("2020").toISOString() is "2020-01-01T00:00:00.000Z"
ToISOString(dateable) == dateable \o <<45, 48, 49, 45, 48, 49, 84, 48, 48, 58, 48, 48, 58, 48, 48, 46, 48, 48, 48, 90>>

\* The thrown values: an Error and its message.
TypeErrorOf(message) == [name |-> "TypeError", message |-> message]
ErrorOf(message) == [name |-> "Error", message |-> message]
IsError(v) == DOMAIN v = {"name", "message"}

\* A date that does not parse is passed on as it is.
isoTimestampUnchecked(dateable) ==
    IF TruthyStr(dateable)
    THEN [value |-> ToISOString(dateable)]
    ELSE [value |-> Undefined]

\* lines 930-939: the value returned, or the TypeError thrown
isoTimestamp(dateable) ==
    IF TruthyStr(dateable)
    THEN IF IsNaNDate(dateable)
         THEN TypeErrorOf("is not a valid input for new Date().")
         ELSE [value |-> ToISOString(dateable)]
    ELSE [value |-> Undefined]

\* reportType.toLowerCase() on the report types a request carries
ToLowerCase(reportType) ==
    CASE reportType = "Inventory" -> "inventory"
      [] reportType = "Internal" -> "internal"
      [] reportType = "granuleNotFound" -> "granulenotfound"
      [] OTHER -> reportType

\* lodash camelCase on the normalized report types
camelCase(reportType) ==
    CASE reportType = "Inventory" -> <<105, 110, 118, 101, 110, 116, 111, 114, 121>>
      [] reportType = "Internal" -> <<105, 110, 116, 101, 114, 110, 97, 108>>
      [] reportType = "Granule Not Found" -> <<103, 114, 97, 110, 117, 108, 101, 78, 111, 116, 70, 111, 117, 110, 100>>
      [] OTHER -> <<>>

\* An array holding one string is the string after the marker -2, so that a
\* value that is a string, an array or undefined is always a list of numbers.
ArrayOf(string) == <<-2>> \o string
CollectionIdC1 == constructCollectionId(<<88>>, <<118, 49>>)
\* lodash isString
isString(v) == v = <<>> \/ Head(v) >= 0

\* What a request may carry.  reportType, collectionId, collectionIds and
\* reportName may be absent.  Requests vary in their dates and collection
\* ids, or in their type, name and collection id.
NoType == "undefined"
Events ==
    [reportType : {NoType},
     startTimestamp : {Undefined, ValidDate, UnparsableDate, EmptyString},
     endTimestamp : {Undefined, ValidDate, UnparsableDate},
     collectionIds : {Undefined, ArrayOf(CollectionIdC1)},
     collectionId : {Undefined, CollectionIdC1, ArrayOf(CollectionIdC1)},
     reportName : {Undefined}]
    \cup
    [reportType : {NoType, "Internal", "granuleNotFound"},
     startTimestamp : {Undefined},
     endTimestamp : {Undefined},
     collectionIds : {Undefined},
     collectionId : {Undefined, CollectionIdC1, ArrayOf(CollectionIdC1)},
     reportName : {Undefined, <<114>>}]

\* JavaScript truthiness of a string, an array or undefined: an array, also
\* an empty one, is truthy.
TruthyAny(v) == v /= Undefined /\ v /= EmptyString

\* lines 948-989: the normalized parameters, or the TypeError thrown.
\* removeNilProperties drops the keys that are undefined; an absent key reads
\* as Undefined.
normalizeEvent(ev) ==
    LET startTimestamp == isoTimestamp(ev.startTimestamp)
        endTimestamp == isoTimestamp(ev.endTimestamp)
        reportType0 == IF ev.reportType /= NoType THEN ev.reportType ELSE "Inventory"
        reportType == IF ToLowerCase(reportType0) = "granulenotfound"
                      THEN "Granule Not Found" ELSE reportType0
        base == [reportType |-> reportType,
                 systemBucket |-> SystemBucket,
                 stackName |-> StackName,
                 reportName |-> ev.reportName,
                 startTimestamp |-> startTimestamp.value,
                 endTimestamp |-> endTimestamp.value,
                 collectionId |-> Undefined,
                 collectionIds |-> Undefined]
    IN  IF IsError(startTimestamp) THEN startTimestamp
        ELSE IF IsError(endTimestamp) THEN endTimestamp
        ELSE IF TruthyAny(ev.collectionIds)
        THEN TypeErrorOf("collectionIds is not a valid input key for a reconciliation report, use collectionId instead.")
        ELSE IF TruthyAny(ev.collectionId)
        THEN (IF reportType = "Internal"
              THEN (IF ~isString(ev.collectionId)
                    THEN TypeErrorOf("is not valid input for an 'Internal' report.")
                    ELSE [base EXCEPT !.collectionId = ev.collectionId,
                                      !.collectionIds = ArrayOf(ev.collectionId)])
              ELSE [base EXCEPT !.collectionIds =
                       (IF isString(ev.collectionId)
                        THEN ArrayOf(ev.collectionId) ELSE ev.collectionId)])
        ELSE base

\* ------------------------------------------------------ stores and tasks
\* The bucket configuration the system bucket may hold, in the order
\* Object.values yields it: a list of this one with at most MaxDataBuckets
\* data buckets.
AllBucketConfigs ==
    <<[name |-> PrivateBucket, type |-> "private"],
      [name |-> <<105>>, type |-> "internal"],
      [name |-> ProtectedBucket, type |-> "protected"],
      [name |-> PublicBucket, type |-> "public"]>>

\* line 266
isDataBucket(bucketConfig) == bucketConfig.type \in {"private", "public", "protected"}

RECURSIVE SelectData(_)
\* lines 799-800: the names of the data buckets, in configuration order
SelectData(configs) ==
    IF configs = <<>> THEN <<>>
    ELSE IF isDataBucket(Head(configs))
         THEN <<Head(configs).name>> \o SelectData(Tail(configs))
         ELSE SelectData(Tail(configs))

BucketConfigLists ==
    {l \in {SubSeq(AllBucketConfigs, 1, n) : n \in 0..Len(AllBucketConfigs)} :
        Len(SelectData(l)) <= MaxDataBuckets}

\* The collection ids both stores hold, ascending.
AllOkCollections ==
    <<constructCollectionId(<<88>>, <<118, 49>>), constructCollectionId(<<88>>, <<118, 50>>),
      constructCollectionId(<<89>>, <<118, 49>>), constructCollectionId(<<90>>, <<118, 49>>)>>

\* What reconciliationReportForCollections returns for the stores' contents.
CollectionReports ==
    {[okCollections |-> SubSeq(AllOkCollections, 1, n),
      onlyInCumulus |-> <<>>,
      onlyInCmr |-> <<>>] : n \in 0..Min2(MaxCollections, Len(AllOkCollections))}
    \cup {[okCollections |-> <<AllOkCollections[2]>>,
           onlyInCumulus |-> <<AllOkCollections[1]>>,
           onlyInCmr |-> <<AllOkCollections[3]>>]}

\* The number of bucket reconciliations that may run at a time, as configured.
\* createReconciliationReport reads no such setting.
ConcurrencyLimit == 1

\* lines 805-810
EmptyBucketReport ==
    [okCount |-> 0, okCountByGranule |-> EmptyObject, onlyInS3 |-> <<>>, onlyInDynamoDb |-> <<>>]

\* What createReconciliationReportForBucket returns for a bucket: one matched
\* file of granule g1 and one object only in S3.
BucketReportOf(bucket) ==
    [okCount |-> 1,
     okCountByGranule |-> SetKey(EmptyObject, <<103, 49>>, 1),
     onlyInS3 |-> <<buildS3Uri(bucket, <<97>>)>>,
     onlyInDynamoDb |-> <<>>]

EmptyGranuleAndFilesReport == [granulesReport |-> EmptyReport, filesReport |-> EmptyReport]

\* What reconciliationReportForGranules returns for a collection: one matched
\* granule with one matched file, and one granule only in Cumulus.
GranuleAndFilesReportOf(collectionId) ==
    [granulesReport |->
        [okCount |-> 1,
         onlyInCumulus |-> <<[granuleId |-> <<103, 50>>, collectionId |-> collectionId]>>,
         onlyInCmr |-> <<>>],
     filesReport |-> [okCount |-> 1, onlyInCumulus |-> <<>>, onlyInCmr |-> <<>>]]

\* A promise of a spawned reconciliation: running, resolved with its report
\* or rejected with an error.  While it runs, value is what it has so far.
RunningTask(partial) == [state |-> "running", value |-> partial, reason |-> Null]
Running(tasks) == {i \in 1..Len(tasks) : tasks[i].state = "running"}
Rejected(tasks) == {i \in 1..Len(tasks) : tasks[i].state = "rejected"}
AllResolved(tasks) == \A i \in 1..Len(tasks) : tasks[i].state = "resolved"

\* Promise.all settled on the first resolution.
PromiseAllOfAny(current, tasks) ==
    IF current /= Null THEN current
    ELSE IF \E i \in 1..Len(tasks) : tasks[i].state = "rejected"
    THEN [rejected |-> tasks[CHOOSE i \in 1..Len(tasks) : tasks[i].state = "rejected"].reason]
    ELSE IF tasks = <<>> \/ \E i \in 1..Len(tasks) : tasks[i].state = "resolved"
    THEN [values |-> [i \in 1..Len(tasks) |-> tasks[i].value]]
    ELSE Null

\* Promise.all taken for Promise.allSettled: a rejection does not reject it.
PromiseAllOfSettled(current, tasks) ==
    IF current /= Null THEN current
    ELSE IF \A i \in 1..Len(tasks) : tasks[i].state /= "running"
    THEN [values |-> [i \in 1..Len(tasks) |-> tasks[i].value]]
    ELSE Null

\* lines 839 and 746: the promise Promise.all(tasks) returned, after one of
\* the tasks settled (or right after the call).  current is its state before:
\* Null while pending; it rejects with the first rejection and is fulfilled
\* with every value once every task has resolved.
PromiseAll(current, tasks) ==
    IF current /= Null THEN current
    ELSE IF \E i \in 1..Len(tasks) : tasks[i].state = "rejected"
    THEN [rejected |-> tasks[CHOOSE i \in 1..Len(tasks) : tasks[i].state = "rejected"].reason]
    ELSE IF AllResolved(tasks)
    THEN [values |-> [i \in 1..Len(tasks) |-> tasks[i].value]]
    ELSE Null

IsRejected(promise) == promise /= Null /\ DOMAIN promise = {"rejected"}
IsFulfilled(promise) == promise /= Null /\ DOMAIN promise = {"values"}

\* ------------------------------------------------------------- the run
ReportInit ==
    /\ pc = "handler_start"
    /\ event \in Events
    /\ bucketsConfigJson \in BucketConfigLists
    /\ collectionReport \in CollectionReports
    /\ handlerResult = Null
    /\ params = Null
    /\ reportRecord = Null
    /\ putObjects = <<>>
    /\ report = Null
    /\ dataBuckets = <<>>
    /\ promisedBucketReports = <<>>
    /\ bucketReports = Null
    /\ promisedGranuleReports = <<>>
    /\ granuleAndFilesReports = Null
    /\ caught = Null
    /\ spawned = <<>>
    /\ recReportParams = NoParams
    /\ BucketIdle
    /\ CollectionsIdle
    /\ FilesIdle
    /\ GranulesIdle
    /\ LibraryIdle

\* lines 991-997: normalizeEvent throws, and handler rejects, or
\* processRequest is called with the normalized parameters
HandlerStart ==
    /\ pc = "handler_start"
    /\ IF IsError(normalizeEvent(event))
       THEN /\ handlerResult' = [rejected |-> normalizeEvent(event)]
            /\ pc' = "handler_rejected"
            /\ UNCHANGED params
       ELSE /\ params' = normalizeEvent(event)
            /\ pc' = "process_start"
            /\ UNCHANGED handlerResult
    /\ UNCHANGED <<event, reportRecord, putObjects, report, bucketsConfigJson, dataBuckets,
                   promisedBucketReports, bucketReports, collectionReport,
                   promisedGranuleReports, granuleAndFilesReports, caught, spawned>>
    /\ UNCHANGED outsideReport

\* moment.utc().format('YYYYMMDDTHHmmssSSS') at the time of the request
CreateStartTime == <<50, 48, 50, 48, 48, 49, 48, 49, 84, 48, 48, 48, 48, 48, 48, 48, 48, 48>>
\* lines 887-888
reportRecordName ==
    IF TruthyStr(params.reportName)
    THEN params.reportName
    ELSE camelCase(params.reportType) \o <<82, 101, 112, 111, 114, 116, 45>> \o CreateStartTime
\* line 889
reportKey ==
    params.stackName \o <<47, 114, 101, 99, 111, 110, 99, 105, 108, 105, 97, 116, 105, 111, 110, 45, 114, 101, 112, 111, 114, 116, 115, 47>> \o reportRecordName \o <<46, 106, 115, 111, 110>>

\* lines 885-907: the tracking record is created in the database, and the
\* report of the requested type is started
ProcessCreateRecord ==
    /\ pc = "process_start"
    /\ reportRecord' = [name |-> reportRecordName,
                        type |-> params.reportType,
                        status |-> "Pending",
                        location |-> buildS3Uri(params.systemBucket, reportKey),
                        error |-> Null]
    /\ pc' = IF params.reportType = "Internal"
             THEN "internal_report" ELSE "report_start"
    /\ UNCHANGED <<event, handlerResult, params, putObjects, report, bucketsConfigJson,
                   dataBuckets, promisedBucketReports, bucketReports, collectionReport,
                   promisedGranuleReports, granuleAndFilesReports, caught, spawned>>
    /\ UNCHANGED outsideReport

\* line 904: createInternalReconciliationReport returns or throws
InternalReport ==
    /\ pc = "internal_report"
    /\ \/ /\ pc' = "process_update"
          /\ UNCHANGED caught
       \/ /\ caught' = ErrorOf("createInternalReconciliationReport")
          /\ pc' = "process_catch"
    /\ UNCHANGED <<event, handlerResult, params, reportRecord, putObjects, report,
                   bucketsConfigJson, dataBuckets, promisedBucketReports, bucketReports,
                   collectionReport, promisedGranuleReports, granuleAndFilesReports, spawned>>
    /\ UNCHANGED outsideReport

\* lines 787-802: the bucket configuration and the distribution bucket map
\* are read from the system bucket, or a read throws
ReportFetchConfig ==
    /\ pc = "report_start"
    /\ \/ /\ dataBuckets' = SelectData(bucketsConfigJson)
          /\ pc' = "report_initial_put"
          /\ UNCHANGED caught
       \/ /\ caught' = ErrorOf("getJsonS3Object")
          /\ pc' = "process_catch"
          /\ UNCHANGED dataBuckets
    /\ UNCHANGED <<event, handlerResult, params, reportRecord, putObjects, report,
                   bucketsConfigJson, promisedBucketReports, bucketReports,
                   collectionReport, promisedGranuleReports, granuleAndFilesReports, spawned>>
    /\ UNCHANGED outsideReport

\* initialReportHeader(recReportParams), with the fields of the document
\* that are set later
initialReportHeader ==
    [reportType |-> params.reportType,
     status |-> "Pending",
     createStartTime |-> CreateStartTime,
     createEndTime |-> Undefined,
     error |-> Undefined]

\* lines 805-824
InitialReport ==
    [reportType |-> initialReportHeader.reportType,
     status |-> initialReportHeader.status,
     createStartTime |-> initialReportHeader.createStartTime,
     createEndTime |-> initialReportHeader.createEndTime,
     error |-> initialReportHeader.error,
     filesInCumulus |-> EmptyBucketReport,
     collectionsInCumulusCmr |-> EmptyReport,
     granulesInCumulusCmr |-> EmptyReport,
     filesInCumulusCmr |-> EmptyReport]

\* The initial report is not written to S3.
ReportInitialPutSkipped ==
    /\ pc = "report_initial_put"
    /\ report' = InitialReport
    /\ pc' = "report_buckets"
    /\ UNCHANGED <<event, handlerResult, params, reportRecord, putObjects,
                   bucketsConfigJson, dataBuckets, promisedBucketReports, bucketReports,
                   collectionReport, promisedGranuleReports, granuleAndFilesReports,
                   caught, spawned>>
    /\ UNCHANGED outsideReport

\* lines 804-830: the initial report is written to S3, or the write throws
ReportInitialPut ==
    /\ pc = "report_initial_put"
    /\ report' = InitialReport
    /\ \/ /\ putObjects' = Append(putObjects, report')
          /\ pc' = "report_buckets"
          /\ UNCHANGED caught
       \/ /\ caught' = ErrorOf("putObject")
          /\ pc' = "process_catch"
          /\ UNCHANGED putObjects
    /\ UNCHANGED <<event, handlerResult, params, reportRecord, bucketsConfigJson,
                   dataBuckets, promisedBucketReports, bucketReports, collectionReport,
                   promisedGranuleReports, granuleAndFilesReports, spawned>>
    /\ UNCHANGED outsideReport

\* lines 835-839: a reconciliation is started for every data bucket, each
\* running up to its first await, and Promise.all is awaited
ReportSpawnBuckets ==
    /\ pc = "report_buckets"
    /\ promisedBucketReports' =
           [i \in 1..Len(dataBuckets) |-> RunningTask(EmptyBucketReport)]
    /\ spawned' = spawned \o dataBuckets
    /\ bucketReports' = PromiseAll(Null, promisedBucketReports')
    /\ pc' = "report_await_buckets"
    /\ UNCHANGED <<event, handlerResult, params, reportRecord, putObjects, report,
                   bucketsConfigJson, dataBuckets, collectionReport,
                   promisedGranuleReports, granuleAndFilesReports, caught>>
    /\ UNCHANGED outsideReport

\* line 836: the reconciliation of one bucket returns its report
BucketReportResolves ==
    /\ \E i \in Running(promisedBucketReports) :
          promisedBucketReports' =
              [promisedBucketReports EXCEPT
                  ![i] = [state |-> "resolved", value |-> BucketReportOf(dataBuckets[i]),
                          reason |-> Null]]
    /\ bucketReports' = PromiseAll(bucketReports, promisedBucketReports')
    /\ UNCHANGED <<pc, event, handlerResult, params, reportRecord, putObjects, report,
                   bucketsConfigJson, dataBuckets, collectionReport,
                   promisedGranuleReports, granuleAndFilesReports, caught, spawned>>
    /\ UNCHANGED outsideReport

\* line 836: the reconciliation of one bucket throws
BucketReportRejects ==
    /\ \E i \in Running(promisedBucketReports) :
          promisedBucketReports' =
              [promisedBucketReports EXCEPT
                  ![i] = [state |-> "rejected", value |-> @.value,
                          reason |-> ErrorOf("createReconciliationReportForBucket")]]
    /\ bucketReports' = PromiseAll(bucketReports, promisedBucketReports')
    /\ UNCHANGED <<pc, event, handlerResult, params, reportRecord, putObjects, report,
                   bucketsConfigJson, dataBuckets, collectionReport,
                   promisedGranuleReports, granuleAndFilesReports, caught, spawned>>
    /\ UNCHANGED outsideReport

\* Every bucket's counts by granule replace the report's instead of being
\* added to them.
AddCountsByGranuleOverwrites(current, counts) ==
    [g \in (DOMAIN current) \cup (DOMAIN counts) |->
        IF g \in DOMAIN counts THEN counts[g] ELSE current[g]]

\* lines 848-854: the counts by granule of a bucket added to the report's
AddCountsByGranule(current, counts) ==
    [g \in (DOMAIN current) \cup (DOMAIN counts) |->
        (IF g \in DOMAIN current THEN current[g] ELSE 0)
        + (IF g \in DOMAIN counts THEN counts[g] ELSE 0)]

RECURSIVE AddBucketReports(_, _)
\* lines 841-855: bucketReports.forEach
AddBucketReports(filesInCumulus, reports) ==
    IF reports = <<>> THEN filesInCumulus
    ELSE AddBucketReports(
             [okCount |-> filesInCumulus.okCount + Head(reports).okCount,
              okCountByGranule |-> AddCountsByGranule(filesInCumulus.okCountByGranule,
                                                      Head(reports).okCountByGranule),
              onlyInS3 |-> filesInCumulus.onlyInS3 \o Head(reports).onlyInS3,
              onlyInDynamoDb |-> filesInCumulus.onlyInDynamoDb \o Head(reports).onlyInDynamoDb],
             Tail(reports))

\* lines 839-855: Promise.all has settled; the bucket reports are added to
\* the report, or the rejection is thrown to processRequest
ReportAwaitBuckets ==
    /\ pc = "report_await_buckets"
    /\ bucketReports /= Null
    /\ IF IsRejected(bucketReports)
       THEN /\ caught' = bucketReports.rejected
            /\ pc' = "process_catch"
            /\ UNCHANGED report
       ELSE /\ report' = [report EXCEPT !.filesInCumulus =
                             AddBucketReports(@, bucketReports.values)]
            /\ pc' = "report_cumulus_cmr"
            /\ UNCHANGED caught
    /\ UNCHANGED <<event, handlerResult, params, reportRecord, putObjects,
                   bucketsConfigJson, dataBuckets, promisedBucketReports, bucketReports,
                   collectionReport, promisedGranuleReports, granuleAndFilesReports, spawned>>
    /\ UNCHANGED outsideReport

\* A granule reconciliation is started for the collections only in Cumulus
\* as well.
CumulusCmrCollectionsSpawnsAll ==
    /\ pc = "report_cumulus_cmr"
    /\ promisedGranuleReports' =
           [i \in 1..Len(collectionReport.okCollections \o collectionReport.onlyInCumulus) |->
               RunningTask(EmptyGranuleAndFilesReport)]
    /\ spawned' = spawned \o collectionReport.okCollections \o collectionReport.onlyInCumulus
    /\ granuleAndFilesReports' = PromiseAll(Null, promisedGranuleReports')
    /\ pc' = "cumulus_cmr_await_granules"
    /\ UNCHANGED <<event, handlerResult, params, reportRecord, putObjects, report,
                   bucketsConfigJson, dataBuckets, promisedBucketReports, bucketReports,
                   collectionReport, caught>>
    /\ UNCHANGED outsideReport

\* lines 859, 732-746: the collections are compared, a granule reconciliation
\* is started for every collection in both stores, and Promise.all is
\* awaited; or the collection comparison throws
CumulusCmrCollections ==
    /\ pc = "report_cumulus_cmr"
    /\ \/ /\ promisedGranuleReports' =
                 [i \in 1..Len(collectionReport.okCollections) |->
                     RunningTask(EmptyGranuleAndFilesReport)]
          /\ spawned' = spawned \o collectionReport.okCollections
          /\ granuleAndFilesReports' = PromiseAll(Null, promisedGranuleReports')
          /\ pc' = "cumulus_cmr_await_granules"
          /\ UNCHANGED caught
       \/ /\ caught' = ErrorOf("reconciliationReportForCollections")
          /\ pc' = "process_catch"
          /\ UNCHANGED <<promisedGranuleReports, spawned, granuleAndFilesReports>>
    /\ UNCHANGED <<event, handlerResult, params, reportRecord, putObjects, report,
                   bucketsConfigJson, dataBuckets, promisedBucketReports, bucketReports,
                   collectionReport>>
    /\ UNCHANGED outsideReport

\* The reports are collected in the order the reconciliations return: the
\* first to return fills the slot of the first collection.
GranuleReportResolvesInCompletionOrder ==
    /\ \E i \in Running(promisedGranuleReports) :
          promisedGranuleReports' =
              [promisedGranuleReports EXCEPT
                  ![i] = [state |-> "resolved",
                          value |-> GranuleAndFilesReportOf(
                              collectionReport.okCollections[
                                  Len(promisedGranuleReports)
                                  - Cardinality(Running(promisedGranuleReports)) + 1]),
                          reason |-> Null]]
    /\ granuleAndFilesReports' = PromiseAll(granuleAndFilesReports, promisedGranuleReports')
    /\ UNCHANGED <<pc, event, handlerResult, params, reportRecord, putObjects, report,
                   bucketsConfigJson, dataBuckets, promisedBucketReports, bucketReports,
                   collectionReport, caught, spawned>>
    /\ UNCHANGED outsideReport

\* lines 742-744: the granule reconciliation of one collection returns
GranuleReportResolves ==
    /\ \E i \in Running(promisedGranuleReports) :
          promisedGranuleReports' =
              [promisedGranuleReports EXCEPT
                  ![i] = [state |-> "resolved",
                          value |-> GranuleAndFilesReportOf(collectionReport.okCollections[i]),
                          reason |-> Null]]
    /\ granuleAndFilesReports' = PromiseAll(granuleAndFilesReports, promisedGranuleReports')
    /\ UNCHANGED <<pc, event, handlerResult, params, reportRecord, putObjects, report,
                   bucketsConfigJson, dataBuckets, promisedBucketReports, bucketReports,
                   collectionReport, caught, spawned>>
    /\ UNCHANGED outsideReport

\* lines 742-744: the granule reconciliation of one collection throws
GranuleReportRejects ==
    /\ \E i \in Running(promisedGranuleReports) :
          promisedGranuleReports' =
              [promisedGranuleReports EXCEPT
                  ![i] = [state |-> "rejected", value |-> @.value,
                          reason |-> ErrorOf("reconciliationReportForGranules")]]
    /\ granuleAndFilesReports' = PromiseAll(granuleAndFilesReports, promisedGranuleReports')
    /\ UNCHANGED <<pc, event, handlerResult, params, reportRecord, putObjects, report,
                   bucketsConfigJson, dataBuckets, promisedBucketReports, bucketReports,
                   collectionReport, caught, spawned>>
    /\ UNCHANGED outsideReport

RECURSIVE SumReports(_, _)
\* lines 751-767: the reduce calls over granuleAndFilesReports; which is
\* "granulesReport" or "filesReport"
SumReports(reports, which) ==
    IF reports = <<>> THEN EmptyReport
    ELSE LET rest == SumReports(Tail(reports), which)
         IN  [okCount |-> Head(reports)[which].okCount + rest.okCount,
              onlyInCumulus |-> Head(reports)[which].onlyInCumulus \o rest.onlyInCumulus,
              onlyInCmr |-> Head(reports)[which].onlyInCmr \o rest.onlyInCmr]

\* moment.utc().toISOString() when the comparison is over
CreateEndTime == ToISOString(ValidDate)

\* lines 746-769, 862-866: Promise.all has settled; the three reports of the
\* Cumulus-CMR comparison are assigned to the report, which gets its end time
\* and the status SUCCESS; or the rejection is thrown to processRequest
CumulusCmrAwaitGranules ==
    /\ pc = "cumulus_cmr_await_granules"
    /\ granuleAndFilesReports /= Null
    /\ IF IsRejected(granuleAndFilesReports)
       THEN /\ caught' = granuleAndFilesReports.rejected
            /\ pc' = "process_catch"
            /\ UNCHANGED report
       ELSE /\ report' =
                 [report EXCEPT
                     !.collectionsInCumulusCmr =
                         [okCount |-> Len(collectionReport.okCollections),
                          onlyInCumulus |-> collectionReport.onlyInCumulus,
                          onlyInCmr |-> collectionReport.onlyInCmr],
                     !.granulesInCumulusCmr =
                         SumReports(granuleAndFilesReports.values, "granulesReport"),
                     !.filesInCumulusCmr =
                         SumReports(granuleAndFilesReports.values, "filesReport"),
                     !.createEndTime = CreateEndTime,
                     !.status = "SUCCESS"]
            /\ pc' = "report_final_put"
            /\ UNCHANGED caught
    /\ UNCHANGED <<event, handlerResult, params, reportRecord, putObjects,
                   bucketsConfigJson, dataBuckets, promisedBucketReports, bucketReports,
                   collectionReport, promisedGranuleReports, granuleAndFilesReports, spawned>>
    /\ UNCHANGED outsideReport

\* The final write is not awaited: createReconciliationReport returns with
\* the document still to be written.
ReportFinalPutNotAwaited ==
    /\ pc = "report_final_put"
    /\ pc' = "process_update"
    /\ UNCHANGED <<event, handlerResult, params, reportRecord, report, putObjects, caught,
                   bucketsConfigJson, dataBuckets, promisedBucketReports, bucketReports,
                   collectionReport, promisedGranuleReports, granuleAndFilesReports, spawned>>
    /\ UNCHANGED outsideReport

\* lines 869-873: the full report is written to S3, or the write throws
ReportFinalPut ==
    /\ pc = "report_final_put"
    /\ \/ /\ putObjects' = Append(putObjects, report)
          /\ pc' = "process_update"
          /\ UNCHANGED caught
       \/ /\ caught' = ErrorOf("putObject")
          /\ pc' = "process_catch"
          /\ UNCHANGED putObjects
    /\ UNCHANGED <<event, handlerResult, params, reportRecord, report,
                   bucketsConfigJson, dataBuckets, promisedBucketReports, bucketReports,
                   collectionReport, promisedGranuleReports, granuleAndFilesReports, spawned>>
    /\ UNCHANGED outsideReport

\* The status is written and the update throws all the same.
ProcessUpdateStatusWritesAndThrows ==
    /\ pc = "process_update"
    /\ reportRecord' = [reportRecord EXCEPT !.status = "Generated"]
    /\ caught' = ErrorOf("updateStatus")
    /\ pc' = "process_catch"
    /\ UNCHANGED <<event, handlerResult, params, putObjects, report,
                   bucketsConfigJson, dataBuckets, promisedBucketReports, bucketReports,
                   collectionReport, promisedGranuleReports, granuleAndFilesReports, spawned>>
    /\ UNCHANGED outsideReport

\* line 908: the tracking record becomes Generated, or the update throws
\* and leaves the record as it was
ProcessUpdateStatus ==
    /\ pc = "process_update"
    /\ \/ /\ reportRecord' = [reportRecord EXCEPT !.status = "Generated"]
          /\ pc' = "process_get"
          /\ UNCHANGED caught
       \/ /\ caught' = ErrorOf("updateStatus")
          /\ pc' = "process_catch"
          /\ UNCHANGED reportRecord
    /\ UNCHANGED <<event, handlerResult, params, putObjects, report,
                   bucketsConfigJson, dataBuckets, promisedBucketReports, bucketReports,
                   collectionReport, promisedGranuleReports, granuleAndFilesReports, spawned>>
    /\ UNCHANGED outsideReport

\* errorify(error): JSON.stringify(error, Object.getOwnPropertyNames(error))
errorify(error) == <<"name", error.name, "message", error.message>>

\* The error is caught and the record is left as it is.
ProcessCatchSwallows ==
    /\ pc = "process_catch"
    /\ pc' = "process_get"
    /\ UNCHANGED <<event, handlerResult, params, reportRecord, putObjects, report,
                   bucketsConfigJson, dataBuckets, promisedBucketReports, bucketReports,
                   collectionReport, promisedGranuleReports, granuleAndFilesReports,
                   caught, spawned>>
    /\ UNCHANGED outsideReport

\* The record is updated to Failed without the cause.
ProcessCatchWithoutCause ==
    /\ pc = "process_catch"
    /\ reportRecord' = [reportRecord EXCEPT
                           !.status = "Failed",
                           !.error = [Error |-> caught.message, Cause |-> Undefined]]
    /\ pc' = "process_get"
    /\ UNCHANGED <<event, handlerResult, params, putObjects, report,
                   bucketsConfigJson, dataBuckets, promisedBucketReports, bucketReports,
                   collectionReport, promisedGranuleReports, granuleAndFilesReports,
                   caught, spawned>>
    /\ UNCHANGED outsideReport

\* lines 909-920: the error is caught and the tracking record is updated to
\* Failed with the error's message and cause
ProcessCatch ==
    /\ pc = "process_catch"
    /\ reportRecord' = [reportRecord EXCEPT
                           !.status = "Failed",
                           !.error = [Error |-> caught.message, Cause |-> errorify(caught)]]
    /\ pc' = "process_get"
    /\ UNCHANGED <<event, handlerResult, params, putObjects, report,
                   bucketsConfigJson, dataBuckets, promisedBucketReports, bucketReports,
                   collectionReport, promisedGranuleReports, granuleAndFilesReports,
                   caught, spawned>>
    /\ UNCHANGED outsideReport

\* lines 922, 997: the tracking record is read back and returned
ProcessReturn ==
    /\ pc = "process_get"
    /\ handlerResult' = [fulfilled |-> reportRecord]
    /\ pc' = "handler_done"
    /\ UNCHANGED <<event, params, reportRecord, putObjects, report,
                   bucketsConfigJson, dataBuckets, promisedBucketReports, bucketReports,
                   collectionReport, promisedGranuleReports, granuleAndFilesReports,
                   caught, spawned>>
    /\ UNCHANGED outsideReport

ReportNext ==
    \/ HandlerStart
    \/ ProcessCreateRecord
    \/ InternalReport
    \/ ReportFetchConfig
    \/ ReportInitialPut
    \/ ReportSpawnBuckets
    \/ BucketReportResolves
    \/ BucketReportRejects
    \/ ReportAwaitBuckets
    \/ CumulusCmrCollections
    \/ GranuleReportResolves
    \/ GranuleReportRejects
    \/ CumulusCmrAwaitGranules
    \/ ReportFinalPut
    \/ ProcessUpdateStatus
    \/ ProcessCatch
    \/ ProcessReturn

SpecReport == ReportInit /\ [][ReportNext]_vars

\* Every step that can be taken is taken in the end: the event loop runs the
\* continuation of every settled promise, and every request to a store
\* returns or throws.
SpecReportLive == ReportInit /\ [][ReportNext]_vars /\ WF_vars(ReportNext)

\* ---------------------------------------------------------------- C11
RecordStatus == IF reportRecord = Null THEN "none" ELSE reportRecord.status
Terminal == {"Generated", "Failed"}

C11_StatusInRange == RecordStatus \in {"none", "Pending", "Generated", "Failed"}
C11_Transitions ==
    /\ RecordStatus = "none" => RecordStatus' \in {"none", "Pending"}
    /\ RecordStatus = "Pending" => RecordStatus' \in {"Pending", "Generated", "Failed"}
    /\ RecordStatus \in Terminal => RecordStatus' = RecordStatus

\* C11: the tracking record is created with status Pending, its status is
\* always Pending, Generated or Failed, and the only changes of the status
\* are Pending -> Generated and Pending -> Failed: a record that is Generated
\* or Failed keeps its status.
C11_RecordLifecycle == [] C11_StatusInRange /\ [][C11_Transitions]_vars

\* The update to Generated threw: the record was Pending when the error was
\* caught, and is Failed.
C11_Witness ==
    /\ pc = "process_get"
    /\ caught = ErrorOf("updateStatus")
    /\ RecordStatus = "Failed"

C13_FailedRecordReturned ==
    (pc = "handler_done" /\ caught /= Null) =>
        /\ reportRecord.status = "Failed"
        /\ reportRecord.error = [Error |-> caught.message, Cause |-> errorify(caught)]
        /\ handlerResult = [fulfilled |-> reportRecord]
C13_NotRethrown == caught /= Null => (handlerResult = Null \/ DOMAIN handlerResult = {"fulfilled"})
C13_CaughtOnce == caught /= Null => caught' = caught

C14_DocumentFailed ==
    (pc = "handler_done" /\ caught /= Null /\ params.reportType /= "Internal") =>
        /\ putObjects /= <<>>
        /\ putObjects[Len(putObjects)].status = "Failed"
        /\ putObjects[Len(putObjects)].error =
               [Error |-> caught.message, Cause |-> errorify(caught)]

\* ---------------------------------------------------------------- C15
\* C15: every document createReconciliationReport has written has a status
\* that is Pending, Generated or Failed.
C15_DocumentStatus ==
    \A n \in 1..Len(putObjects) : putObjects[n].status \in {"Pending", "Generated", "Failed"}

\* ---------------------------------------------------------------- C16
ComparisonBegun ==
    pc \in {"report_await_buckets", "report_cumulus_cmr", "cumulus_cmr_await_granules",
            "report_final_put"}
    \/ promisedBucketReports /= <<>>
    \/ promisedGranuleReports /= <<>>

C16_CheckpointWritten ==
    ComparisonBegun =>
        /\ reportRecord /= Null
        /\ TruthyStr(reportRecord.name)
        /\ TruthyStr(reportRecord.location)
        /\ putObjects /= <<>>
        /\ putObjects[1].filesInCumulus = EmptyBucketReport
        /\ putObjects[1].collectionsInCumulusCmr = EmptyReport
        /\ putObjects[1].granulesInCumulusCmr = EmptyReport
        /\ putObjects[1].filesInCumulusCmr = EmptyReport
C16_PendingWhenBegun == (~ComparisonBegun /\ ComparisonBegun') => RecordStatus = "Pending"

\* C16: for a report that is not Internal, when the first bucket, collection,
\* granule or file comparison starts, the tracking record exists with status
\* Pending, a name and a location, and the initial report document, every
\* sub-report zeroed or empty, has been written to storage.
C16_CheckpointBeforeComparison == [] C16_CheckpointWritten /\ [][C16_PendingWhenBegun]_vars

\* Two bucket reconciliations have just been started.
C16_Witness ==
    /\ pc = "report_await_buckets"
    /\ params.reportType /= "Internal"
    /\ Cardinality(Running(promisedBucketReports)) = 2
    /\ Len(putObjects) = 1
    /\ RecordStatus = "Pending"

\* ---------------------------------------------------------------- C17
AnyRejected == Rejected(promisedBucketReports) /= {} \/ Rejected(promisedGranuleReports) /= {}

Unparsable(dateable) == TruthyStr(dateable) /\ IsNaNDate(dateable)
IsInputError ==
    \/ Unparsable(event.startTimestamp)
    \/ Unparsable(event.endTimestamp)
    \/ TruthyAny(event.collectionIds) /\ TruthyAny(event.collectionId)

\* C18: a request with a startTimestamp or endTimestamp that does not parse
\* as a date, or with collectionIds next to collectionId, is rejected by
\* normalizeEvent with a TypeError: processRequest does not run, no tracking
\* record is created and no report document is written.
C18_InputErrorsRejected ==
    IsInputError =>
        /\ pc \in {"handler_start", "handler_rejected"}
        /\ pc = "handler_rejected" =>
              /\ DOMAIN handlerResult = {"rejected"}
              /\ handlerResult.rejected.name = "TypeError"
        /\ params = Null
        /\ reportRecord = Null
        /\ putObjects = <<>>

\* The request carries an unparsable endTimestamp only.
C18_Witness ==
    /\ pc = "handler_rejected"
    /\ event.endTimestamp = UnparsableDate
    /\ event.startTimestamp = ValidDate
    /\ event.collectionIds = Undefined
    /\ reportRecord = Null

\* ---------------------------------------------------------------- C19
\* C19: at every moment the number of bucket reconciliations in progress is
\* at most the configured concurrency limit.
C19_BoundedBucketConcurrency ==
    Cardinality(Running(promisedBucketReports)) <= ConcurrencyLimit

\* ---------------------------------------------------------------- C20
BucketReportsOf(buckets) == [n \in 1..Len(buckets) |-> BucketReportOf(buckets[n])]
GranuleReportsOf(ids) == [n \in 1..Len(ids) |-> GranuleAndFilesReportOf(ids[n])]

C20_BucketBarrier ==
    (pc = "report_await_buckets" /\ pc' = "report_cumulus_cmr") =>
        /\ AllResolved(promisedBucketReports)
        /\ report'.filesInCumulus =
               AddBucketReports(EmptyBucketReport, BucketReportsOf(dataBuckets))
C20_GranuleBarrier ==
    (pc = "cumulus_cmr_await_granules" /\ pc' = "report_final_put") =>
        /\ AllResolved(promisedGranuleReports)
        /\ report'.granulesInCumulusCmr =
               SumReports(GranuleReportsOf(collectionReport.okCollections), "granulesReport")
        /\ report'.filesInCumulusCmr =
               SumReports(GranuleReportsOf(collectionReport.okCollections), "filesReport")

\* C20: the bucket reports are added to the report only when every bucket
\* reconciliation that was started has returned, and the granule and file
\* reports only when the granule reconciliation of every collection has
\* returned; what is added is the returned report of each, never the report
\* of a reconciliation that is still running.
C20_AggregationBarrier == [][C20_BucketBarrier /\ C20_GranuleBarrier]_vars

\* Two bucket reports and two granule reports have been added to the report.
C20_Witness ==
    /\ pc = "report_final_put"
    /\ Len(promisedBucketReports) = 2
    /\ Len(promisedGranuleReports) = 2
    /\ report.filesInCumulus.okCount = 2
    /\ report.granulesInCumulusCmr.okCount = 2

\* ---------------------------------------------------------------- C21
\* The collections a granule reconciliation was started for, in the order
\* they were started: what the second map spawned, after the data buckets.
GranulesSpawnedFor ==
    IF Len(spawned) > Len(dataBuckets)
    THEN SubSeq(spawned, Len(dataBuckets) + 1, Len(spawned))
    ELSE <<>>
GranulesStarted ==
    pc \in {"cumulus_cmr_await_granules", "report_final_put"}
    \/ promisedGranuleReports /= <<>>

\* C21: reconciliationReportForGranules is started for exactly the ids in
\* okCollections, once each, with one promise per id, and never for a
\* collection that is only in Cumulus or only in CMR.
C21_GranulesOnlyForOkCollections ==
    /\ \A n \in 1..Len(GranulesSpawnedFor) :
          /\ \E m \in 1..Len(collectionReport.okCollections) :
                collectionReport.okCollections[m] = GranulesSpawnedFor[n]
          /\ \A m \in 1..Len(collectionReport.onlyInCumulus) :
                collectionReport.onlyInCumulus[m] /= GranulesSpawnedFor[n]
          /\ \A m \in 1..Len(collectionReport.onlyInCmr) :
                collectionReport.onlyInCmr[m] /= GranulesSpawnedFor[n]
          /\ \A m \in 1..Len(GranulesSpawnedFor) :
                GranulesSpawnedFor[m] = GranulesSpawnedFor[n] => m = n
    /\ GranulesStarted =>
          /\ \A m \in 1..Len(collectionReport.okCollections) :
                \E n \in 1..Len(GranulesSpawnedFor) :
                    GranulesSpawnedFor[n] = collectionReport.okCollections[m]
          /\ Len(promisedGranuleReports) = Len(collectionReport.okCollections)

\* The stores hold one collection in both, one only in Cumulus and one only
\* in CMR, and the granule reconciliation of the first has returned.
C21_Witness ==
    /\ pc = "report_final_put"
    /\ collectionReport.onlyInCumulus /= <<>>
    /\ collectionReport.onlyInCmr /= <<>>
    /\ GranulesSpawnedFor = collectionReport.okCollections
    /\ Len(GranulesSpawnedFor) = 1

\* ---------------------------------------------------------------- C22
\* The sum of a sequence of numbers and the concatenation of a sequence of
\* lists, in order.
RECURSIVE SumOf(_)
SumOf(numbers) == IF numbers = <<>> THEN 0 ELSE Head(numbers) + SumOf(Tail(numbers))
RECURSIVE ConcatOf(_)
ConcatOf(lists) == IF lists = <<>> THEN <<>> ELSE Head(lists) \o ConcatOf(Tail(lists))
Field(reports, name) == [n \in 1..Len(reports) |-> reports[n][name]]
\* The count of granule g in a bucket report, zero if the report has none.
CountOf(bucketReport, g) ==
    IF g \in DOMAIN bucketReport.okCountByGranule
    THEN bucketReport.okCountByGranule[g] ELSE 0
SumAndConcat(subReport, reports) ==
    /\ subReport.okCount = SumOf(Field(reports, "okCount"))
    /\ subReport.onlyInCumulus = ConcatOf(Field(reports, "onlyInCumulus"))
    /\ subReport.onlyInCmr = ConcatOf(Field(reports, "onlyInCmr"))

\* C22: the final report is the sum and the in-order concatenation of the
\* returned reports: over the data buckets for filesInCumulus (okCount,
\* onlyInS3, onlyInDynamoDb, and okCountByGranule granule by granule), over
\* okCollections for granulesInCumulusCmr and filesInCumulusCmr; and
\* collectionsInCumulusCmr.okCount is the number of okCollections.
C22_FinalReportAggregates ==
    (pc \in {"report_final_put", "process_update"} /\ params.reportType /= "Internal") =>
        LET byBucket == BucketReportsOf(dataBuckets)
            byCollection == GranuleReportsOf(collectionReport.okCollections)
            files == report.filesInCumulus
        IN  /\ files.okCount = SumOf(Field(byBucket, "okCount"))
            /\ files.onlyInS3 = ConcatOf(Field(byBucket, "onlyInS3"))
            /\ files.onlyInDynamoDb = ConcatOf(Field(byBucket, "onlyInDynamoDb"))
            /\ DOMAIN files.okCountByGranule =
                   UNION {DOMAIN byBucket[n].okCountByGranule : n \in 1..Len(byBucket)}
            /\ \A g \in DOMAIN files.okCountByGranule :
                   files.okCountByGranule[g] =
                       SumOf([n \in 1..Len(byBucket) |-> CountOf(byBucket[n], g)])
            /\ SumAndConcat(report.granulesInCumulusCmr, Field(byCollection, "granulesReport"))
            /\ SumAndConcat(report.filesInCumulusCmr, Field(byCollection, "filesReport"))
            /\ report.collectionsInCumulusCmr.okCount = Len(collectionReport.okCollections)
            /\ pc = "process_update" => putObjects[Len(putObjects)] = report

\* The final report of two data buckets and two collections has been written.
C22_Witness ==
    /\ pc = "process_update"
    /\ Len(dataBuckets) = 2
    /\ Len(collectionReport.okCollections) = 2
    /\ Len(putObjects) = 2
    /\ putObjects[2].filesInCumulus.okCount = 2
    /\ Len(putObjects[2].filesInCumulus.onlyInS3) = 2
    /\ Len(putObjects[2].granulesInCumulusCmr.onlyInCumulus) = 2

\* ======================================================================
\* A cursor over a paginated source (S3ListObjectsV2Queue and the search
\* queues), and the bucket comparison reading through two cursors
\* ======================================================================
MaxInventory == 2

RECURSIVE PageSplits(_)
\* Every way of splitting a listing into consecutive pages, none of them
\* empty; the empty listing comes as one empty page.
PageSplits(l) ==
    IF l = <<>> THEN {<< <<>> >>}
    ELSE {<<l>>} \cup
         UNION {{<<SubSeq(l, 1, k)>> \o rest : rest \in PageSplits(SubSeq(l, k + 1, Len(l)))} :
                   k \in 1..(Len(l) - 1)}

SourcePageLists == UNION {PageSplits(l) : l \in SortedS3Listings}
InventoryPageLists ==
    UNION {PageSplits(l) : l \in {i \in SortedDynamoDbListings : Len(i) <= MaxInventory}}

RECURSIVE ListMore(_, _, _)
\* Kinesis.ts lines 619-629: the loop of listS3ObjectsV2; response n holds
\* page n and is truncated when a page follows
ListMore(pages, n, discoveredObjects) ==
    IF n < Len(pages)
    THEN ListMore(pages, n + 1, discoveredObjects \o pages[n + 1])
    ELSE discoveredObjects
\* Kinesis.ts lines 613-632: the whole listing, fetched page after page
listS3ObjectsV2(pages) == ListMore(pages, 1, pages[1])

\* A new cursor: nothing buffered, no page fetched yet.
CursorNew(pages) == [buffer |-> <<>>, pages |-> pages, exhausted |-> FALSE]

\* The first page is taken for the whole source.
CursorLoadOnlyFirstPage(c) ==
    IF c.buffer = <<>> /\ ~c.exhausted
    THEN [buffer |-> Head(c.pages), pages |-> <<>>, exhausted |-> TRUE]
    ELSE c

\* The last page stays with the cursor, which fetches it once more after the
\* source has signalled completion.
CursorLoadRefetchesLastPage(c) ==
    IF c.buffer = <<>> /\ ~c.exhausted
    THEN [buffer |-> Head(c.pages),
          pages |-> IF Tail(c.pages) = <<>> THEN c.pages ELSE Tail(c.pages),
          exhausted |-> Tail(c.pages) = <<>>]
    ELSE IF c.buffer = <<>> /\ c.pages /= <<>>
    THEN [buffer |-> Head(c.pages), pages |-> <<>>, exhausted |-> TRUE]
    ELSE c

\* When the buffer is empty and the source has not signalled completion,
\* the next page is fetched into the buffer; the source signals completion
\* with its last page.
CursorLoad(c) ==
    IF c.buffer = <<>> /\ ~c.exhausted
    THEN [buffer |-> Head(c.pages), pages |-> Tail(c.pages),
          exhausted |-> Tail(c.pages) = <<>>]
    ELSE c

\* peek(): the head of the buffer, null when the cursor is exhausted; the
\* cursor afterwards differs by the page load only
CursorPeek(c) ==
    LET loaded == CursorLoad(c)
    IN  [cursor |-> loaded,
         value |-> IF loaded.buffer = <<>> THEN Null ELSE Head(loaded.buffer)]

\* shift() drops the whole buffered page with the head.
CursorShiftDropsPage(c) ==
    LET loaded == CursorLoad(c)
    IN  [cursor |-> [loaded EXCEPT !.buffer = <<>>],
         value |-> IF loaded.buffer = <<>> THEN Null ELSE Head(loaded.buffer)]

\* shift(): the head of the buffer, which is removed; null when exhausted
CursorShift(c) ==
    LET loaded == CursorLoad(c)
    IN  [cursor |-> [loaded EXCEPT !.buffer = IF @ = <<>> THEN <<>> ELSE Tail(@)],
         value |-> IF loaded.buffer = <<>> THEN Null ELSE Head(loaded.buffer)]

RECURSIVE DrainS3(_, _)
\* lines 389-392
DrainS3(s3Queue, soFar) ==
    IF TruthyObj(CursorPeek(s3Queue).value)
    THEN LET shifted == CursorShift(CursorPeek(s3Queue).cursor)
         IN  DrainS3(shifted.cursor,
                     [soFar EXCEPT !.onlyInS3 =
                         Append(@, buildS3Uri(Bucket, shifted.value.Key))])
    ELSE soFar

RECURSIVE DrainDynamoDb(_, _)
\* lines 395-401
DrainDynamoDb(dbLister, soFar) ==
    IF TruthyObj(CursorPeek(dbLister).value)
    THEN LET shifted == CursorShift(CursorPeek(dbLister).cursor)
         IN  DrainDynamoDb(shifted.cursor,
                 [soFar EXCEPT !.onlyInDynamoDb =
                     Append(@, [uri |-> buildS3Uri(Bucket, shifted.value.key),
                                granuleId |-> shifted.value.granuleId])])
    ELSE soFar

RECURSIVE MergeJoin(_, _, _)
\* lines 357-408: the comparison loop, the two drains and the return, read
\* through the cursors s3Queue and dbLister
MergeJoin(s3Queue, dbLister, soFar) ==
    LET s3Peek == CursorPeek(s3Queue)
        dbPeek == CursorPeek(dbLister)
    IN  IF TruthyObj(s3Peek.value) /\ TruthyObj(dbPeek.value)
        THEN LET nextS3Uri == buildS3Uri(Bucket, s3Peek.value.Key)
                 nextDynamoDbUri == buildS3Uri(Bucket, dbPeek.value.key)
                 g == dbPeek.value.granuleId
                 counts == IF g \in DOMAIN soFar.okCountByGranule
                              /\ soFar.okCountByGranule[g] /= 0
                           THEN soFar.okCountByGranule
                           ELSE SetKey(soFar.okCountByGranule, g, 0)
             IN  IF StrLess(nextS3Uri, nextDynamoDbUri)
                 THEN MergeJoin(CursorShift(s3Peek.cursor).cursor, dbPeek.cursor,
                                [soFar EXCEPT !.onlyInS3 = Append(@, nextS3Uri),
                                               !.okCountByGranule = counts])
                 ELSE IF StrLess(nextDynamoDbUri, nextS3Uri)
                 THEN LET shifted == CursorShift(dbPeek.cursor)
                      IN  MergeJoin(s3Peek.cursor, shifted.cursor,
                              [soFar EXCEPT
                                  !.onlyInDynamoDb =
                                      Append(@, [uri |-> buildS3Uri(Bucket, shifted.value.key),
                                                 granuleId |-> shifted.value.granuleId]),
                                  !.okCountByGranule = counts])
                 ELSE MergeJoin(CursorShift(s3Peek.cursor).cursor,
                                CursorShift(dbPeek.cursor).cursor,
                                [soFar EXCEPT !.okCount = @ + 1,
                                               !.okCountByGranule =
                                                   SetKey(counts, g, counts[g] + 1)])
        ELSE DrainDynamoDb(dbPeek.cursor, DrainS3(s3Peek.cursor, soFar))

\* the source as a list of entries
RECURSIVE Flatten(_)
Flatten(pages) == IF pages = <<>> THEN <<>> ELSE Head(pages) \o Flatten(Tail(pages))

CursorInit ==
    /\ pc = "cursor"
    /\ sourcePages \in SourcePageLists
    /\ inventoryPages \in InventoryPageLists
    /\ cursor = CursorNew(sourcePages)
    /\ yielded = <<>>
    /\ lastCall = Null
    /\ joined = Null
    /\ RerunIdle
    /\ RetryIdle
    /\ ExecutionIdle
    /\ recReportParams = NoParams
    /\ BucketIdle
    /\ CollectionsIdle
    /\ FilesIdle
    /\ GranulesIdle
    /\ ReportIdle
    /\ CompletionIdle
    /\ AsyncIdle
    /\ ProviderIdle

\* a caller peeks
CursorPeekCall ==
    /\ pc = "cursor"
    /\ cursor' = CursorPeek(cursor).cursor
    /\ lastCall' = [op |-> "peek", value |-> CursorPeek(cursor).value]
    /\ UNCHANGED <<pc, sourcePages, inventoryPages, yielded, joined>>
    /\ UNCHANGED outsideCursor

\* a caller shifts
CursorShiftCall ==
    /\ pc = "cursor"
    /\ cursor' = CursorShift(cursor).cursor
    /\ lastCall' = [op |-> "shift", value |-> CursorShift(cursor).value]
    /\ yielded' = IF CursorShift(cursor).value = Null
                  THEN yielded ELSE Append(yielded, CursorShift(cursor).value)
    /\ UNCHANGED <<pc, sourcePages, inventoryPages, joined>>
    /\ UNCHANGED outsideCursor

\* lines 348-409 run twice on the same listings: through cursors over the
\* pages as the sources return them, and through cursors that get each
\* whole listing as one page
CursorJoin ==
    /\ pc = "cursor"
    /\ joined = Null
    /\ joined' =
           [paged |-> MergeJoin(CursorNew(sourcePages), CursorNew(inventoryPages),
                                EmptyBucketReport),
            single |-> MergeJoin(CursorNew(<<listS3ObjectsV2(sourcePages)>>),
                                 CursorNew(<<Flatten(inventoryPages)>>),
                                 EmptyBucketReport)]
    /\ UNCHANGED <<pc, sourcePages, inventoryPages, cursor, yielded, lastCall>>
    /\ UNCHANGED outsideCursor

CursorNext ==
    \/ CursorPeekCall
    \/ CursorShiftCall
    \/ CursorJoin

SpecCursor == CursorInit /\ [][CursorNext]_vars

\* ---------------------------------------------------------------- C23
\* C23: for every sorted listing and every way of splitting it into
\* consecutive pages, the merge-join reading it through a paginated cursor
\* returns the same report as the merge-join reading the whole listing as
\* one page.
C23_PagingInvisible ==
    joined /= Null => joined.paged = joined.single

\* A listing of three objects came in two pages, the inventory in two, an
\* object matched and another was only in S3.
C23_Witness ==
    /\ joined /= Null
    /\ Len(sourcePages) = 2
    /\ Len(Flatten(sourcePages)) = 3
    /\ Len(inventoryPages) = 2
    /\ joined.paged.okCount >= 1
    /\ joined.paged.onlyInS3 /= <<>>

\* ---------------------------------------------------------------- C25
Source == Flatten(sourcePages)
\* The entry of the source at position n, null past its end.
SourceEntry(n) == IF n <= Len(Source) THEN Source[n] ELSE Null
\* What the cursor has not yielded yet.
Remaining(c) == c.buffer \o Flatten(c.pages)
\* The step is a call of op on the cursor.
Called(op) == <<cursor, lastCall>>' /= <<cursor, lastCall>> /\ lastCall'.op = op

C25_PeekStep ==
    Called("peek") =>
        /\ lastCall'.value = SourceEntry(Len(yielded) + 1)
        /\ Remaining(cursor') = Remaining(cursor)
        /\ yielded' = yielded
        /\ CursorPeek(cursor') = [cursor |-> cursor', value |-> lastCall'.value]
C25_ShiftStep ==
    Called("shift") =>
        /\ lastCall'.value = CursorPeek(cursor).value
        /\ lastCall'.value /= Null =>
              /\ Remaining(cursor') = Tail(Remaining(cursor))
              /\ yielded' = Append(yielded, lastCall'.value)
        /\ CursorPeek(cursor').value = SourceEntry(Len(yielded) + 2)

\* C25: peek returns the entry at the head and does not advance: a second
\* peek returns the same entry and changes nothing, and the cursor differs
\* by a page load at most; shift returns the entry a peek would return at
\* that moment and advances past it, so that the next peek returns the
\* following entry of the source.
C25_PeekShiftContract == [][C25_PeekStep /\ C25_ShiftStep]_vars

\* After two shifts, the second past a page boundary, a peek returns the
\* third entry of the source.
C25_Witness ==
    /\ lastCall /= Null
    /\ lastCall.op = "peek"
    /\ Len(sourcePages) = 3
    /\ Len(yielded) = 2
    /\ lastCall.value = Source[3]

\* ---------------------------------------------------------------- C26
Exhausted(c) == c /= Null /\ c.exhausted /\ c.buffer = <<>>

\* C26: once the source has signalled completion and the buffer is empty,
\* the cursor stays so, every later peek and shift returns null, and
\* nothing is yielded any more; what was yielded is always the entries of
\* the source from its start, each once.
C26_ExhaustionAbsorbing ==
    /\ [](yielded = SubSeq(Source, 1, Len(yielded)))
    /\ [][Exhausted(cursor) =>
             /\ Exhausted(cursor')
             /\ yielded' = yielded
             /\ lastCall' /= lastCall => lastCall'.value = Null]_vars

\* Three entries in two pages were yielded, and a shift after that returned
\* null.
C26_Witness ==
    /\ Exhausted(cursor)
    /\ Len(sourcePages) = 2
    /\ Len(yielded) = 3
    /\ lastCall.op = "shift"
    /\ lastCall.value = Null

\* ======================================================================
\* The same reconciliation run twice on unchanged stores
\* ======================================================================
\* The sub-reports of a report document.
SubReportsOf(document) ==
    [filesInCumulus |-> document.filesInCumulus,
     collectionsInCumulusCmr |-> document.collectionsInCumulusCmr,
     granulesInCumulusCmr |-> document.granulesInCumulusCmr,
     filesInCumulusCmr |-> document.filesInCumulusCmr]

ReportGenerated ==
    /\ pc = "handler_done"
    /\ params.reportType /= "Internal"
    /\ reportRecord.status = "Generated"

\* lines 991-997 once more: the handler is invoked again with the same event,
\* the stores and the configuration being what they were
ReportRunAgain ==
    /\ ReportGenerated
    /\ firstRun = Null
    /\ firstRun' = SubReportsOf(report)
    /\ pc' = "handler_start"
    /\ handlerResult' = Null
    /\ params' = Null
    /\ reportRecord' = Null
    /\ putObjects' = <<>>
    /\ report' = Null
    /\ dataBuckets' = <<>>
    /\ promisedBucketReports' = <<>>
    /\ bucketReports' = Null
    /\ promisedGranuleReports' = <<>>
    /\ granuleAndFilesReports' = Null
    /\ caught' = Null
    /\ spawned' = <<>>
    /\ UNCHANGED <<event, bucketsConfigJson, collectionReport>>
    /\ UNCHANGED <<recReportParams, bucketVars, collectionVars, fileVars, granuleVars,
                   cursorVars, retryVars, executionVars, completionVars, asyncVars, providerVars>>

\* lines 490-582 once more: the files of the same granule are compared again
FilesRunAgain ==
    /\ pc = "files_done"
    /\ firstRun = Null
    /\ firstRun' = fileReport
    /\ pc' = "files_start"
    /\ granuleFiles' = <<>>
    /\ fileReport' = EmptyReport
    /\ relatedUrlPromises' = <<>>
    /\ microtasks' = <<>>
    /\ UNCHANGED <<filesReturnTo, granuleInDb, granuleInCmr>>
    /\ UNCHANGED <<recReportParams, bucketVars, collectionVars, granuleVars, reportVars,
                   cursorVars, retryVars, executionVars, completionVars, asyncVars, providerVars>>

TwiceInit == ReportInit \/ FilesInit

TwiceNext ==
    \/ ReportNext
    \/ FilesNext
    \/ ReportRunAgain
    \/ FilesRunAgain

SpecTwice == TwiceInit /\ [][TwiceNext]_vars

C24_WitnessFiles ==
    /\ firstRun /= Null
    /\ pc = "files_done"
    /\ Len(granuleInCmr.RelatedUrls) = 2
    /\ fileReport.okCount >= 1

\* ======================================================================
\* headObject, getS3Object and describeStream: a request retried by pRetry
\* ======================================================================
MaxRetries == 3

FetchOps == {"headObject", "getS3Object", "describeStream"}
\* Kinesis.ts lines 29, 171, 325: the code of the error that is thrown as it
\* is, for pRetry to try again
RetryableCode(op) ==
    CASE op = "headObject" -> "NotFound"
      [] op = "getS3Object" -> "NoSuchKey"
      [] op = "describeStream" -> "ResourceNotFoundException"
\* The codes a request may fail with.
ErrorCodes == {"NotFound", "NoSuchKey", "ResourceNotFoundException", "AccessDenied"}

\* Kinesis.ts lines 23, 165, 319: the default of the retryOptions parameter
DefaultRetryOptions == [retries |-> 0]
\* Kinesis.ts lines 33, 175, 327-331: the options pRetry gets
PRetryOptions == IF retryOptions = Omitted THEN DefaultRetryOptions ELSE retryOptions

RetryInit ==
    /\ pc = "retry_attempt"
    /\ fetchOp \in FetchOps
    /\ retryOptions \in {Omitted} \cup {[retries |-> n] : n \in 0..MaxRetries}
    /\ attemptLog = <<>>
    /\ fetchResult = Null
    /\ recReportParams = NoParams
    /\ BucketIdle
    /\ CollectionsIdle
    /\ FilesIdle
    /\ GranulesIdle
    /\ ReportIdle
    /\ CursorIdle
    /\ RerunIdle
    /\ ExecutionIdle
    /\ CompletionIdle
    /\ AsyncIdle
    /\ ProviderIdle

\* Kinesis.ts lines 27, 169, 323: the request succeeds and pRetry resolves
\* with its response
RetryAttemptSucceeds ==
    /\ pc = "retry_attempt"
    /\ attemptLog' = Append(attemptLog, "ok")
    /\ fetchResult' = [resolved |-> "response"]
    /\ pc' = "retry_done"
    /\ UNCHANGED <<fetchOp, retryOptions>>
    /\ UNCHANGED outsideRetry

\* pRetry tries once more than retries allows.
RetryAttemptNotFoundOnceMore ==
    /\ pc = "retry_attempt"
    /\ attemptLog' = Append(attemptLog, RetryableCode(fetchOp))
    /\ IF Len(attemptLog) <= PRetryOptions.retries
       THEN UNCHANGED <<pc, fetchResult>>
       ELSE /\ fetchResult' = [rejected |-> RetryableCode(fetchOp)]
            /\ pc' = "retry_done"
    /\ UNCHANGED <<fetchOp, retryOptions>>
    /\ UNCHANGED outsideRetry

\* Kinesis.ts lines 29, 171, 325: the request fails with the not-found code,
\* the error is thrown as it is, and pRetry makes another attempt while the
\* attempts made are no more than retries, and rejects with the error
\* otherwise
RetryAttemptNotFound ==
    /\ pc = "retry_attempt"
    /\ attemptLog' = Append(attemptLog, RetryableCode(fetchOp))
    /\ IF Len(attemptLog) < PRetryOptions.retries
       THEN UNCHANGED <<pc, fetchResult>>
       ELSE /\ fetchResult' = [rejected |-> RetryableCode(fetchOp)]
            /\ pc' = "retry_done"
    /\ UNCHANGED <<fetchOp, retryOptions>>
    /\ UNCHANGED outsideRetry

\* Every error is thrown as it is, and pRetry tries again.
RetryAttemptAbortsRetried ==
    /\ pc = "retry_attempt"
    /\ \E code \in ErrorCodes \ {RetryableCode(fetchOp)} :
          /\ attemptLog' = Append(attemptLog, code)
          /\ IF Len(attemptLog) < PRetryOptions.retries
             THEN UNCHANGED <<pc, fetchResult>>
             ELSE /\ fetchResult' = [rejected |-> code]
                  /\ pc' = "retry_done"
    /\ UNCHANGED <<fetchOp, retryOptions>>
    /\ UNCHANGED outsideRetry

\* Kinesis.ts lines 30, 172, 326: the request fails with another code, the
\* error is wrapped in a pRetry.AbortError, and pRetry rejects with the
\* error at once
RetryAttemptAborts ==
    /\ pc = "retry_attempt"
    /\ \E code \in ErrorCodes \ {RetryableCode(fetchOp)} :
          /\ attemptLog' = Append(attemptLog, code)
          /\ fetchResult' = [rejected |-> code]
    /\ pc' = "retry_done"
    /\ UNCHANGED <<fetchOp, retryOptions>>
    /\ UNCHANGED outsideRetry

RetryNext ==
    \/ RetryAttemptSucceeds
    \/ RetryAttemptNotFound
    \/ RetryAttemptAborts

SpecRetry == RetryInit /\ [][RetryNext]_vars

\* ---------------------------------------------------------------- C27
\* C27: in headObject, getS3Object and describeStream an attempt failing
\* with a code other than the function's not-found code is the last one,
\* however many retries are configured, and the call fails with that error.
C27_OtherErrorsAbort ==
    \A n \in 1..Len(attemptLog) :
        attemptLog[n] \notin {"ok", RetryableCode(fetchOp)} =>
            /\ n = Len(attemptLog)
            /\ pc = "retry_done"
            /\ fetchResult = [rejected |-> attemptLog[n]]

\* With two retries configured, getS3Object failed with NotFound, which is
\* not its not-found code, on the second attempt.
C27_Witness ==
    /\ fetchOp = "getS3Object"
    /\ retryOptions = [retries |-> 2]
    /\ attemptLog = <<"NoSuchKey", "NotFound">>
    /\ fetchResult = [rejected |-> "NotFound"]

\* ---------------------------------------------------------------- C28
Retries == IF retryOptions = Omitted THEN 0 ELSE retryOptions.retries

\* C28: a call without retry options makes exactly one attempt; with
\* retries = n a call makes at most n + 1 attempts, and fails when all
\* n + 1 failed with the not-found code; an attempt that succeeds is the
\* last, and the call returns its response.
C28_RetriesBounded ==
    /\ Len(attemptLog) <= Retries + 1
    /\ (pc = "retry_done" /\ retryOptions = Omitted) => Len(attemptLog) = 1
    /\ pc = "retry_attempt" =>
          /\ Len(attemptLog) <= Retries
          /\ \A n \in 1..Len(attemptLog) : attemptLog[n] = RetryableCode(fetchOp)
    /\ (pc = "retry_done" /\ attemptLog[Len(attemptLog)] = RetryableCode(fetchOp)) =>
          /\ Len(attemptLog) = Retries + 1
          /\ fetchResult = [rejected |-> RetryableCode(fetchOp)]
    /\ \A n \in 1..Len(attemptLog) :
          attemptLog[n] = "ok" =>
              /\ n = Len(attemptLog)
              /\ pc = "retry_done"
              /\ fetchResult = [resolved |-> "response"]

\* With two retries configured, headObject failed three times with NotFound
\* and the call failed.
C28_Witness ==
    /\ fetchOp = "headObject"
    /\ retryOptions = [retries |-> 2]
    /\ attemptLog = <<"NotFound", "NotFound", "NotFound">>
    /\ fetchResult = [rejected |-> "NotFound"]

\* ======================================================================
\* ExecutionPgModel: create and upsert on the row of one arn, as the tests
\* of the model describe them
\* ======================================================================
\* The records the calls are given: fakeExecutionRecordFactory() with the
\* fields the tests set.  new Date() gives the three times of a record.
ExecutionRecords ==
    {[arn |-> "arn-1", status |-> status, workflow_name |-> workflow, url |-> url,
      created_at |-> at, updated_at |-> at, timestamp |-> at,
      original_payload |-> original, final_payload |-> final] :
        status \in {"running", "completed"},
        workflow \in {"workflow-1", "workflow-2"},
        url \in {"url-1", "url-2"},
        at \in {"date-1", "date-2"},
        original \in {"foo: bar", "none"},
        final \in {"key1: value", "key2: value"}}

\* tests, lines 75-83 and 89-94: the fields an upsert of a running
\* execution writes to an existing row
AllowedFields == {"created_at", "updated_at", "timestamp", "original_payload"}

\* the row with the given fields taken from the record
MergeFields(row, record, fields) ==
    [f \in DOMAIN row |-> IF f \in fields THEN record[f] ELSE row[f]]

\* An upsert of a running execution writes every field but the status.
UpsertOutcomesAllButStatus(row, record) ==
    IF row = Null THEN {record}
    ELSE IF record.status = "running"
    THEN {MergeFields(row, record, (DOMAIN row) \ {"status"})}
    ELSE {record}

\* The rows upsert(record) may leave, row being the row before.  With no row
\* the record is inserted (lines 45-60, 98-113); a record that is not
\* running replaces the row (lines 115-140); a running record on a running
\* row writes the allowed fields (lines 62-96); a running record on a
\* completed row leaves the status (lines 142-162), and the tests do not
\* say whether it writes the allowed fields.
UpsertOutcomes(row, record) ==
    IF row = Null THEN {record}
    ELSE IF record.status = "running"
    THEN IF row.status = "running"
         THEN {MergeFields(row, record, AllowedFields)}
         ELSE {row, MergeFields(row, record, AllowedFields)}
    ELSE {record}

ExecutionInit ==
    /\ pc = "executions"
    /\ executionRow = Null
    /\ dbCall = Null
    /\ recReportParams = NoParams
    /\ BucketIdle
    /\ CollectionsIdle
    /\ FilesIdle
    /\ GranulesIdle
    /\ ReportIdle
    /\ CursorIdle
    /\ RerunIdle
    /\ RetryIdle
    /\ CompletionIdle
    /\ AsyncIdle
    /\ ProviderIdle

\* lines 72, 126, 151: executionPgModel.create(knex, executionRecord)
ExecutionCreate ==
    /\ pc = "executions"
    /\ executionRow = Null
    /\ \E record \in ExecutionRecords :
          /\ executionRow' = record
          /\ dbCall' = [op |-> "create", record |-> record]
    /\ UNCHANGED pc
    /\ UNCHANGED outsideExecution

\* lines 54, 86, 107, 134, 157: executionPgModel.upsert(knex, record)
ExecutionUpsert ==
    /\ pc = "executions"
    /\ \E record \in ExecutionRecords :
          /\ executionRow' \in UpsertOutcomes(executionRow, record)
          /\ dbCall' = [op |-> "upsert", record |-> record]
    /\ UNCHANGED pc
    /\ UNCHANGED outsideExecution

\* lines 207-213: executionPgModel.delete(trx, executionRecord)
ExecutionDelete ==
    /\ pc = "executions"
    /\ executionRow /= Null
    /\ executionRow' = Null
    /\ dbCall' = [op |-> "delete", record |-> executionRow]
    /\ UNCHANGED pc
    /\ UNCHANGED outsideExecution

ExecutionNext ==
    \/ ExecutionCreate
    \/ ExecutionUpsert
    \/ ExecutionDelete

SpecExecution == ExecutionInit /\ [][ExecutionNext]_vars

\* ---------------------------------------------------------------- C30
\* The step is an upsert.
Upserted == <<executionRow, dbCall>>' /= <<executionRow, dbCall>> /\ dbCall'.op = "upsert"

C30_RunningOnRunning ==
    (Upserted /\ executionRow /= Null /\ executionRow.status = "running"
        /\ dbCall'.record.status = "running") =>
        \A f \in DOMAIN executionRow :
            executionRow'[f] = IF f \in {"created_at", "updated_at", "timestamp",
                                         "original_payload"}
                               THEN dbCall'.record[f]
                               ELSE executionRow[f]
C30_NoRow ==
    (Upserted /\ executionRow = Null) => executionRow' = dbCall'.record

MatchedEntriesOf(g) ==
    {i \in 1..Len(dynamoDbListing) :
        /\ dynamoDbListing[i].granuleId = g
        /\ DynamoDbUriOf(dynamoDbListing[i]) \in S3Uris}
RECURSIVE SumOfCounts(_)
SumOfCounts(counts) ==
    IF DOMAIN counts = {} THEN 0
    ELSE LET g == CHOOSE k \in DOMAIN counts : TRUE
         IN  counts[g] + SumOfCounts([k \in (DOMAIN counts) \ {g} |-> counts[k]])

\* C35: in the report createReconciliationReportForBucket returns, the
\* count of every granule that has a key is the number of its inventory
\* entries that matched, every granule with a matched entry has a key, and
\* the counts add up to okCount.
C35_CountsByGranule ==
    pc = "bucket_done" =>
        /\ \A g \in DOMAIN okCountByGranule :
              okCountByGranule[g] = Cardinality(MatchedEntriesOf(g))
        /\ \A g \in BucketGranuleIds :
              MatchedEntriesOf(g) /= {} => g \in DOMAIN okCountByGranule
        /\ SumOfCounts(okCountByGranule) = okCount

\* Two entries of one granule and one of the other matched.
C35_Witness ==
    /\ pc = "bucket_done"
    /\ okCount = 3
    /\ DOMAIN okCountByGranule = BucketGranuleIds
    /\ okCountByGranule[<<103, 49>>] = 2
    /\ okCountByGranule[<<103, 50>>] = 1

\* ---------------------------------------------------------------- C38
\* The document stored at the report's key, null when nothing was written.
StoredDocument == IF putObjects = <<>> THEN Null ELSE putObjects[Len(putObjects)]

\* C38: whenever the tracking record of a report that is not Internal has
\* the status Generated, the final document has been written: the document
\* stored is the finished report, not the zeroed checkpoint.
C38_GeneratedAfterFinalWrite ==
    (reportRecord /= Null /\ reportRecord.status = "Generated"
        /\ params.reportType /= "Internal") =>
        /\ Len(putObjects) = 2
        /\ putObjects[1] = InitialReport
        /\ StoredDocument /= InitialReport
        /\ StoredDocument = report
        /\ StoredDocument.createEndTime = CreateEndTime

\* The record of a report over two data buckets is Generated.
C38_Witness ==
    /\ reportRecord /= Null
    /\ reportRecord.status = "Generated"
    /\ params.reportType /= "Internal"
    /\ Len(dataBuckets) = 2
    /\ StoredDocument.filesInCumulus.okCount = 2


\* ---------------------------------------------------------------- C37
\* The report run with a log of the order in which the reconciliations
\* returned.
outsideReportAndLog == <<recReportParams, bucketVars, collectionVars, fileVars, granuleVars,
    cursorVars, rerunVars, retryVars, executionVars, asyncVars, providerVars>>

\* line 836: the reconciliation of one bucket returns its report; the log
\* gets its position
BucketReportReturns ==
    /\ \E i \in Running(promisedBucketReports) :
          /\ promisedBucketReports' =
                 [promisedBucketReports EXCEPT
                     ![i] = [state |-> "resolved", value |-> BucketReportOf(dataBuckets[i]),
                             reason |-> Null]]
          /\ finished' = Append(finished, [of |-> "bucket", position |-> i])
    /\ bucketReports' = PromiseAll(bucketReports, promisedBucketReports')
    /\ UNCHANGED <<pc, event, handlerResult, params, reportRecord, putObjects, report,
                   bucketsConfigJson, dataBuckets, collectionReport,
                   promisedGranuleReports, granuleAndFilesReports, caught, spawned>>
    /\ UNCHANGED outsideReportAndLog

\* The reports are collected in the order the reconciliations return: the
\* first to return fills the slot of the first collection.
GranuleReportReturnsInCompletionOrder ==
    /\ \E i \in Running(promisedGranuleReports) :
          /\ promisedGranuleReports' =
                 [promisedGranuleReports EXCEPT
                     ![i] = [state |-> "resolved",
                             value |-> GranuleAndFilesReportOf(
                                 collectionReport.okCollections[
                                     Len(promisedGranuleReports)
                                     - Cardinality(Running(promisedGranuleReports)) + 1]),
                             reason |-> Null]]
          /\ finished' = Append(finished, [of |-> "collection", position |-> i])
    /\ granuleAndFilesReports' = PromiseAll(granuleAndFilesReports, promisedGranuleReports')
    /\ UNCHANGED <<pc, event, handlerResult, params, reportRecord, putObjects, report,
                   bucketsConfigJson, dataBuckets, promisedBucketReports, bucketReports,
                   collectionReport, caught, spawned>>
    /\ UNCHANGED outsideReportAndLog

\* lines 742-744: the granule reconciliation of one collection returns; the
\* log gets its position
GranuleReportReturns ==
    /\ \E i \in Running(promisedGranuleReports) :
          /\ promisedGranuleReports' =
                 [promisedGranuleReports EXCEPT
                     ![i] = [state |-> "resolved",
                             value |-> GranuleAndFilesReportOf(collectionReport.okCollections[i]),
                             reason |-> Null]]
          /\ finished' = Append(finished, [of |-> "collection", position |-> i])
    /\ granuleAndFilesReports' = PromiseAll(granuleAndFilesReports, promisedGranuleReports')
    /\ UNCHANGED <<pc, event, handlerResult, params, reportRecord, putObjects, report,
                   bucketsConfigJson, dataBuckets, promisedBucketReports, bucketReports,
                   collectionReport, caught, spawned>>
    /\ UNCHANGED outsideReportAndLog

CompletionNext ==
    \/ HandlerStart
    \/ ProcessCreateRecord
    \/ InternalReport
    \/ ReportFetchConfig
    \/ ReportInitialPut
    \/ ReportSpawnBuckets
    \/ BucketReportReturns
    \/ BucketReportRejects
    \/ ReportAwaitBuckets
    \/ CumulusCmrCollections
    \/ GranuleReportReturns
    \/ GranuleReportRejects
    \/ CumulusCmrAwaitGranules
    \/ ReportFinalPut
    \/ ProcessUpdateStatus
    \/ ProcessCatch
    \/ ProcessReturn

SpecCompletion == ReportInit /\ [][CompletionNext]_vars

\* The positions of the reconciliations of one kind, in the order they
\* returned.
FinishedOf(kind) ==
    LET those == SelectSeq(finished, LAMBDA f : f.of = kind)
    IN  [n \in 1..Len(those) |-> those[n].position]

\* C37: whatever the order in which the reconciliations returned, the n-th
\* entry only in S3 of the final report is the one of the n-th data bucket,
\* and the n-th granule only in Cumulus is the one of the n-th collection of
\* okCollections.
C37_CompletionOrderInvisible ==
    (pc = "report_final_put" /\ params.reportType /= "Internal") =>
        /\ Len(report.filesInCumulus.onlyInS3) = Len(dataBuckets)
        /\ \A n \in 1..Len(dataBuckets) :
               report.filesInCumulus.onlyInS3[n] = buildS3Uri(dataBuckets[n], <<97>>)
        /\ Len(report.granulesInCumulusCmr.onlyInCumulus)
               = Len(collectionReport.okCollections)
        /\ \A n \in 1..Len(collectionReport.okCollections) :
               report.granulesInCumulusCmr.onlyInCumulus[n].collectionId
                   = collectionReport.okCollections[n]

\* The final report is ready and, of both kinds, the second reconciliation
\* returned before the first.
C37_Witness ==
    /\ pc = "report_final_put"
    /\ params.reportType /= "Internal"
    /\ FinishedOf("bucket") = <<2, 1>>
    /\ Len(FinishedOf("collection")) >= 2
    /\ FinishedOf("collection")[1] = 2


\* ---------------------------------------------------------------- C32
\* C32: the files okCount of a granule never exceeds its number of local
\* files, whatever the interleaving of the callbacks of its URL entries.
C32_OkCountWithinLocalFiles ==
    pc \in {"files_await_all", "files_done"} =>
        fileReport.okCount <= Len(granuleInDb.files)


\* ---------------------------------------------------------------- C33
ComparingFiles == pc \in {"files_start", "files_await_all"}

\* C33: in the granule comparison of one collection, the step that finds a
\* granule in both stores starts the comparison of that granule's files at
\* once, on the pair still held; while those files are compared no pair is
\* peeked, no cursor advances and no other granule is taken up; and the next
\* pair is peeked only when every callback of the file comparison has ended.
C33_FilesBeforeNextPair ==
    [][/\ (granulesReport'.okCount /= granulesReport.okCount) =>
              /\ pc' = "files_start"
              /\ granuleInDb'.granuleId = nextDbItem.granuleId
              /\ granuleInCmr'.GranuleUR = nextCmrItem.umm.GranuleUR
              /\ UNCHANGED <<nextDbItem, nextCmrItem>>
       /\ ComparingFiles =>
              UNCHANGED <<nextDbItem, nextCmrItem, esGranulesIterator, cmrGranulesIterator,
                          granulesReport, filesReport, granuleInDb, granuleInCmr>>
       /\ (<<nextDbItem, nextCmrItem>>' /= <<nextDbItem, nextCmrItem>>) =>
              /\ ~ComparingFiles
              /\ microtasks = <<>>
              /\ \A i \in 1..Len(relatedUrlPromises) : relatedUrlPromises[i] = Resolved
      ]_vars

\* The files of a second granule in both stores have been compared, and the
\* file comparison counted or reported something.
C33_Witness ==
    /\ pc = "granules_after_files"
    /\ granulesReport.okCount = 2
    /\ Len(relatedUrlPromises) > 0
    /\ fileReport /= EmptyReport


\* ---------------------------------------------------------------- C36
\* The collection comparison and the granule comparison, each in either mode.
ModesInit == CollectionsInit \/ GranulesInit
ModesNext == CollectionsNext \/ GranulesNext
SpecModes == ModesInit /\ [][ModesNext]_vars

RECURSIVE TwoWayJoin(_, _, _)
\* The comparison of two lists of keys as lines 447-477 and 637-707 make it
\* when the report is not one-way: the keys in both and the keys only in the
\* first list, in the order found.
TwoWayJoin(dbKeys, cmrKeys, soFar) ==
    IF dbKeys = <<>> \/ cmrKeys = <<>>
    THEN [soFar EXCEPT !.onlyInCumulus = @ \o dbKeys]
    ELSE IF StrLess(Head(dbKeys), Head(cmrKeys))
    THEN TwoWayJoin(Tail(dbKeys), cmrKeys,
                    [soFar EXCEPT !.onlyInCumulus = Append(@, Head(dbKeys))])
    ELSE IF StrLess(Head(cmrKeys), Head(dbKeys))
    THEN TwoWayJoin(dbKeys, Tail(cmrKeys), soFar)
    ELSE TwoWayJoin(Tail(dbKeys), Tail(cmrKeys),
                    [soFar EXCEPT !.ok = Append(@, Head(dbKeys))])

TwoWayCollections ==
    TwoWayJoin(fetchESCollections(esCollectionItems), filterCMRCollections(cmrCollectionItems),
               [ok |-> <<>>, onlyInCumulus |-> <<>>])
TwoWayGranules ==
    TwoWayJoin(EsGranuleIdList, CmrGranuleIdList, [ok |-> <<>>, onlyInCumulus |-> <<>>])

JoinsInit == BucketInit \/ CollectionsInit \/ GranulesInit
JoinsNext == BucketNext \/ CollectionsNext \/ GranulesNext
SpecJoins == JoinsInit /\ [][JoinsNext]_vars

\* The entries the two sides of the running comparison still hold.
Unconsumed ==
    Len(s3ObjectsQueue) + Len(dynamoDbFilesLister)
    + Len(esCollectionIds) + Len(cmrCollectionIds)
    + Len(esGranulesIterator) + Len(cmrGranulesIterator)

\* The collections not yet fetched into the two lists of ids (lines 426-442).
Unfetched ==
    IF pc = "collections_start"
    THEN Len(esCollectionItems) + Len(cmrCollectionItems)
    ELSE 0

\* A step that is one iteration of a main loop or of a drain loop.
LoopIterationStep ==
    \/ pc \in {"bucket_loop", "bucket_drain_s3", "bucket_drain_dynamodb",
               "collections_loop", "granules_drain_es", "granules_drain_cmr"} /\ pc' = pc
    \/ pc = "granules_loop" /\ pc' \in {"granules_loop", "files_start"}

\* The side, or one of the two sides, the loop at pc runs on has nothing left.
LoopSideExhausted ==
    \/ pc = "bucket_loop" /\ (s3ObjectsQueue = <<>> \/ dynamoDbFilesLister = <<>>)
    \/ pc = "bucket_drain_s3" /\ s3ObjectsQueue = <<>>
    \/ pc = "bucket_drain_dynamodb" /\ dynamoDbFilesLister = <<>>
    \/ pc = "collections_loop" /\ (esCollectionIds = <<>> \/ cmrCollectionIds = <<>>)
    \/ pc = "granules_loop" /\ (esGranulesIterator = <<>> \/ cmrGranulesIterator = <<>>)
    \/ pc = "granules_drain_es" /\ esGranulesIterator = <<>>
    \/ pc = "granules_drain_cmr" /\ cmrGranulesIterator = <<>>

JoinReturned == pc \in {"bucket_done", "collections_done", "granules_done", "files_threw"}

\* The function is at a place where one of its steps can be taken: a loop
\* either iterates or is left, and the file comparison either has a callback
\* with a continuation to run or has none left and returns.
HasStep ==
    \/ pc \in {"bucket_start", "bucket_loop", "bucket_drain_s3", "bucket_drain_dynamodb",
               "collections_start", "collections_loop",
               "granules_start", "granules_loop", "granules_after_files",
               "granules_drain_es", "granules_drain_cmr", "files_start"}
    \/ /\ pc = "files_await_all"
       /\ \/ microtasks = <<>>
          \/ relatedUrlPromises[Head(microtasks)].at \in {"await_distribution", "await_s3"}

\* The places of each function from its last to its first; within one function
\* control moves towards the front, except from the granule loop into the
\* comparison of a matched granule's files, which takes two entries off.
Places ==
    <<"bucket_done", "bucket_drain_dynamodb", "bucket_drain_s3", "bucket_loop", "bucket_start",
      "collections_done", "collections_loop", "collections_start",
      "granules_done", "files_threw", "granules_drain_cmr", "granules_drain_es",
      "granules_loop", "granules_after_files", "files_await_all", "files_start",
      "granules_start">>
PlaceOf(p) == CHOOSE n \in 1..Len(Places) : Places[n] = p

\* The continuations the callbacks of the file comparison still have to run:
\* two for a callback at its first await, one at its second.
CallbackSteps ==
    Len(microtasks)
    + Cardinality({k \in 1..Len(microtasks) :
                      relatedUrlPromises[microtasks[k]].at = "await_distribution"})

\* What is left to do, compared entry by entry.
Variant == <<Unconsumed + Unfetched, PlaceOf(pc), CallbackSteps>>
LexLess(a, b) ==
    \/ a[1] < b[1]
    \/ a[1] = b[1] /\ a[2] < b[2]
    \/ a[1] = b[1] /\ a[2] = b[2] /\ a[3] < b[3]

\* C39: each comparison terminates. A comparison that has not returned (or
\* thrown, in the comparison of a granule's files) has a step to take; every
\* step leaves strictly less to do, so no run goes on for ever; every
\* iteration of a main loop or of a drain loop takes at least one entry off
\* one side, and a loop whose side is exhausted is left by its next step.
C39_JoinsTerminate ==
    /\ [](JoinReturned \/ HasStep)
    /\ [][/\ LexLess(Variant', Variant)
          /\ LoopIterationStep => Unconsumed' < Unconsumed
          /\ LoopSideExhausted => ~LoopIterationStep]_vars

\* A step of a drain loop of the granule comparison after its main loop ran:
\* the index still holds an unmatched granule and a granule was matched.
C39_Witness ==
    /\ pc = "granules_drain_es"
    /\ granulesReport.okCount >= 1
    /\ Len(esGranulesIterator) = 1
    /\ Len(granulesReport.onlyInCumulus) >= 1
    /\ Len(esGranules) = 3


\* ---------------------------------------------------------------- C34
\* createReconciliationReportForBucket with every call on its two queues
\* taken apart: the part that runs before the call returns to its caller,
\* and, when the call has to fetch a page, the part that runs when the page
\* has come.
Sides == {"s3", "dynamoDb"}
Waiting == [waiting |-> TRUE]

\* The call cannot answer from the buffer: it awaits a page.
NeedsFetch(c) == c.buffer = <<>> /\ ~c.exhausted

\* shift() yields to the event loop before it touches the buffer.
ShiftIssuedDeferred(c) == [cursor |-> c, value |-> Waiting]

\* shift() up to its return to the caller: the head is taken off the buffer
\* unless a page has to be fetched first
ShiftIssued(c) ==
    IF NeedsFetch(c)
    THEN [cursor |-> c, value |-> Waiting]
    ELSE CursorShift(c)

\* peek() up to its return to the caller
PeekIssued(c) ==
    IF NeedsFetch(c)
    THEN [cursor |-> c, value |-> Waiting]
    ELSE CursorPeek(c)

\* The call of op on the queue of side n, whose result goes into returned[into]
\* ("none" when nothing awaits it).
CallOf(op, n, into) == [op |-> op, on |-> n, into |-> into]

\* Promise.all([s3ObjectsQueue.peek(), dynamoDbFilesLister.peek()]) on the
\* queues qs: what each peek returns at once, and the peeks left suspended
PeekPair(qs) ==
    [s3 |-> PeekIssued(qs.s3).value, dynamoDb |-> PeekIssued(qs.dynamoDb).value,
     shifted |-> Null]
PeekCalls(qs) == {CallOf("peek", n, n) : n \in {m \in Sides : PeekIssued(qs[m]).value = Waiting}}
ShiftCalls(issued, n, into) ==
    IF issued.value = Waiting THEN {CallOf("shift", n, into)} ELSE {}

AsyncInit ==
    /\ pc = "async_start"
    /\ \E sourceSplit \in SourcePageLists, inventorySplit \in InventoryPageLists :
          /\ listed = [s3 |-> sourceSplit, dynamoDb |-> inventorySplit]
          /\ queues = [s3 |-> CursorNew(sourceSplit), dynamoDb |-> CursorNew(inventorySplit)]
    /\ calls = {}
    /\ returned = [s3 |-> Null, dynamoDb |-> Null, shifted |-> Null]
    /\ shiftsIssued = [s3 |-> 0, dynamoDb |-> 0]
    /\ asyncReport = EmptyBucketReport
    /\ recReportParams = NoParams
    /\ BucketIdle
    /\ CollectionsIdle
    /\ FilesIdle
    /\ GranulesIdle
    /\ ReportIdle
    /\ CursorIdle
    /\ RerunIdle
    /\ RetryIdle
    /\ ExecutionIdle
    /\ CompletionIdle
    /\ ProviderIdle

\* line 357: the first pair of peeks is called and awaited
AsyncFirstPeeks ==
    /\ pc = "async_start"
    /\ returned' = PeekPair(queues)
    /\ calls' = calls \cup PeekCalls(queues)
    /\ pc' = "async_peeking"
    /\ UNCHANGED <<listed, queues, shiftsIssued, asyncReport>>
    /\ UNCHANGED outsideAsync

\* The page a suspended call awaits has come: the call runs to its end, in
\* whatever order the fetches return
AsyncCallResumes ==
    /\ \E call \in calls :
          LET c == queues[call.on]
              done == IF call.op = "peek" THEN CursorPeek(c) ELSE CursorShift(c)
          IN  /\ queues' = [queues EXCEPT ![call.on] = done.cursor]
              /\ returned' = IF call.into = "none" THEN returned
                             ELSE [returned EXCEPT ![call.into] = done.value]
              /\ calls' = calls \ {call}
    /\ UNCHANGED <<pc, listed, shiftsIssued, asyncReport>>
    /\ UNCHANGED outsideAsync

\* lines 358-386: both peeks have returned an entry; the pair is compared,
\* shift() is called (awaited only for an entry only in DynamoDB) and the
\* next pair of peeks is called and awaited
AsyncLoopIteration ==
    /\ pc = "async_peeking"
    /\ returned.s3 /= Waiting /\ returned.dynamoDb /= Waiting
    /\ TruthyObj(returned.s3) /\ TruthyObj(returned.dynamoDb)
    /\ LET nextS3Uri == buildS3Uri(Bucket, returned.s3.Key)
           nextDynamoDbUri == buildS3Uri(Bucket, returned.dynamoDb.key)
           g == returned.dynamoDb.granuleId
           counts == IF g \in DOMAIN asyncReport.okCountByGranule
                        /\ asyncReport.okCountByGranule[g] /= 0
                     THEN asyncReport.okCountByGranule
                     ELSE SetKey(asyncReport.okCountByGranule, g, 0)
           s3Shift == ShiftIssued(queues.s3)
           dbShift == ShiftIssued(queues.dynamoDb)
       IN  IF StrLess(nextS3Uri, nextDynamoDbUri)
           THEN \* lines 368-369: shift() is not awaited
                LET qs == [queues EXCEPT !.s3 = s3Shift.cursor]
                IN  /\ asyncReport' = [asyncReport EXCEPT !.onlyInS3 = Append(@, nextS3Uri),
                                                          !.okCountByGranule = counts]
                    /\ queues' = qs
                    /\ shiftsIssued' = [shiftsIssued EXCEPT !.s3 = @ + 1]
                    /\ calls' = calls \cup ShiftCalls(s3Shift, "s3", "none") \cup PeekCalls(qs)
                    /\ returned' = PeekPair(qs)
                    /\ pc' = pc
           ELSE IF StrLess(nextDynamoDbUri, nextS3Uri)
           THEN \* line 372: shift() is awaited
                /\ asyncReport' = [asyncReport EXCEPT !.okCountByGranule = counts]
                /\ queues' = [queues EXCEPT !.dynamoDb = dbShift.cursor]
                /\ shiftsIssued' = [shiftsIssued EXCEPT !.dynamoDb = @ + 1]
                /\ calls' = calls \cup ShiftCalls(dbShift, "dynamoDb", "shifted")
                /\ returned' = [returned EXCEPT !.shifted = dbShift.value]
                /\ pc' = "async_await_shift"
           ELSE \* lines 378-381: neither shift() is awaited
                LET qs == [queues EXCEPT !.s3 = s3Shift.cursor, !.dynamoDb = dbShift.cursor]
                IN  /\ asyncReport' =
                           [asyncReport EXCEPT !.okCount = @ + 1,
                                               !.okCountByGranule =
                                                   SetKey(counts, g, counts[g] + 1)]
                    /\ queues' = qs
                    /\ shiftsIssued' = [s3 |-> shiftsIssued.s3 + 1,
                                        dynamoDb |-> shiftsIssued.dynamoDb + 1]
                    /\ calls' = calls \cup ShiftCalls(s3Shift, "s3", "none")
                                      \cup ShiftCalls(dbShift, "dynamoDb", "none")
                                      \cup PeekCalls(qs)
                    /\ returned' = PeekPair(qs)
                    /\ pc' = pc
    /\ UNCHANGED listed
    /\ UNCHANGED outsideAsync

\* lines 372-376, 383: the awaited shift() has returned; its item is pushed
\* and the next pair of peeks is called and awaited
AsyncShiftAwaited ==
    /\ pc = "async_await_shift"
    /\ returned.shifted /= Waiting
    /\ IF TruthyObj(returned.shifted)
       THEN /\ asyncReport' =
                   [asyncReport EXCEPT !.onlyInDynamoDb =
                       Append(@, [uri |-> buildS3Uri(Bucket, returned.shifted.key),
                                  granuleId |-> returned.shifted.granuleId])]
            /\ returned' = PeekPair(queues)
            /\ calls' = calls \cup PeekCalls(queues)
            /\ pc' = "async_peeking"
       ELSE \* dynamoDbItem.key of undefined
            /\ pc' = "async_threw"
            /\ UNCHANGED <<asyncReport, returned, calls>>
    /\ UNCHANGED <<listed, queues, shiftsIssued>>
    /\ UNCHANGED outsideAsync

\* line 358: the loop ends when either peek came back empty
AsyncLoopExit ==
    /\ pc = "async_peeking"
    /\ returned.s3 /= Waiting /\ returned.dynamoDb /= Waiting
    /\ ~(TruthyObj(returned.s3) /\ TruthyObj(returned.dynamoDb))
    /\ pc' = "async_drain_s3"
    /\ UNCHANGED asyncVars
    /\ UNCHANGED outsideAsync

\* lines 389-392: peek() and shift() are awaited one after the other
AsyncDrainS3 ==
    /\ pc = "async_drain_s3"
    /\ LET peeked == CursorPeek(queues.s3)
           shifted == CursorShift(peeked.cursor)
       IN  IF TruthyObj(peeked.value)
           THEN /\ queues' = [queues EXCEPT !.s3 = shifted.cursor]
                /\ shiftsIssued' = [shiftsIssued EXCEPT !.s3 = @ + 1]
                /\ asyncReport' =
                       [asyncReport EXCEPT !.onlyInS3 =
                           Append(@, buildS3Uri(Bucket, shifted.value.Key))]
                /\ pc' = pc
           ELSE /\ queues' = [queues EXCEPT !.s3 = peeked.cursor]
                /\ pc' = "async_drain_dynamodb"
                /\ UNCHANGED <<shiftsIssued, asyncReport>>
    /\ UNCHANGED <<listed, calls, returned>>
    /\ UNCHANGED outsideAsync

\* lines 395-408: the remaining DynamoDB items, and the return
AsyncDrainDynamoDb ==
    /\ pc = "async_drain_dynamodb"
    /\ LET peeked == CursorPeek(queues.dynamoDb)
           shifted == CursorShift(peeked.cursor)
       IN  IF TruthyObj(peeked.value)
           THEN /\ queues' = [queues EXCEPT !.dynamoDb = shifted.cursor]
                /\ shiftsIssued' = [shiftsIssued EXCEPT !.dynamoDb = @ + 1]
                /\ asyncReport' =
                       [asyncReport EXCEPT !.onlyInDynamoDb =
                           Append(@, [uri |-> buildS3Uri(Bucket, shifted.value.key),
                                      granuleId |-> shifted.value.granuleId])]
                /\ pc' = pc
           ELSE /\ queues' = [queues EXCEPT !.dynamoDb = peeked.cursor]
                /\ pc' = "async_done"
                /\ UNCHANGED <<shiftsIssued, asyncReport>>
    /\ UNCHANGED <<listed, calls, returned>>
    /\ UNCHANGED outsideAsync

AsyncNext ==
    \/ AsyncFirstPeeks
    \/ AsyncCallResumes
    \/ AsyncLoopIteration
    \/ AsyncShiftAwaited
    \/ AsyncLoopExit
    \/ AsyncDrainS3
    \/ AsyncDrainDynamoDb

SpecAsync == AsyncInit /\ [][AsyncNext]_vars

EntryAt(l, n) == IF n <= Len(l) THEN l[n] ELSE Null

\* C34: in the bucket comparison no shift() is ever left suspended when the
\* next peeks are called; every peek returns the entry that follows the
\* entries shift() was called for, null when there is none; and the report
\* returned is that of the comparison in which every call is complete before
\* the next is made, so no entry is compared twice and none is skipped.
C34_PeekAfterShift ==
    /\ \A call \in calls : call.op = "peek"
    /\ pc = "async_peeking" =>
           \A n \in Sides :
               returned[n] /= Waiting =>
                   returned[n] = EntryAt(Flatten(listed[n]), shiftsIssued[n] + 1)
    /\ pc = "async_done" =>
           asyncReport = MergeJoin(CursorNew(listed.s3), CursorNew(listed.dynamoDb),
                                   EmptyBucketReport)

\* A shift() that was not awaited took the last entry off the buffer, and the
\* peek called right after it is fetching the next page.
C34_Witness ==
    /\ pc = "async_peeking"
    /\ shiftsIssued.s3 >= 1
    /\ shiftsIssued.dynamoDb >= 1
    /\ CallOf("peek", "s3", "s3") \in calls
    /\ returned.s3 = Waiting


\* ======================================================================
\* post(req, res): a provider is created
\* ======================================================================
ProviderIds == {"p1", "p2"}

\* new ApiProviderCollisionError(...): its constructor sets the name
ApiProviderCollisionError == [name |-> "CumulusMessageError", is |-> "ApiProviderCollisionError"]
RecordDoesNotExist == [name |-> "RecordDoesNotExist", is |-> "RecordDoesNotExist"]
\* errors of other classes: the unique violation of PostgreSQL (code 23505),
\* one that isBadRequestError accepts, and any other
UniqueViolation == [name |-> "error", is |-> "Error", code |-> "23505"]
BadRequestError == [name |-> "ValidationError", is |-> "Error"]
OtherError == [name |-> "Error", is |-> "Error"]

\* what providerModel.get({ id }) can do: return the record DynamoDB holds,
\* throw RecordDoesNotExist when it holds none, or fail otherwise
GetOutcomes(id) ==
    (IF id \in providerStores.dynamo THEN {"record"} ELSE {"RecordDoesNotExist"})
    \cup {"BadRequestError", "OtherError"}

ErrorNamed(outcome) ==
    IF outcome = "RecordDoesNotExist" THEN RecordDoesNotExist
    ELSE IF outcome = "BadRequestError" THEN BadRequestError
    ELSE OtherError

\* The catch block lets no error out.
throwIfDynamoRecordExistsSwallowsAll(outcome) == Null

\* lines 75-84: the error throwIfDynamoRecordExists throws, Null when it
\* returns
throwIfDynamoRecordExists(outcome) ==
    LET thrownInTry == IF outcome = "record"
                       THEN ApiProviderCollisionError
                       ELSE ErrorNamed(outcome)
    IN  IF thrownInTry.is /= "RecordDoesNotExist" THEN thrownInTry ELSE Null

ProviderInit ==
    /\ pc = "post_start"
    /\ providerStores \in [dynamo : SUBSET ProviderIds, postgres : SUBSET ProviderIds]
    /\ storesAtRequest = providerStores
    /\ postId \in ProviderIds
    /\ lookedUp = "nothing yet"
    /\ postError = Null
    /\ postResponse = Null
    /\ recReportParams = NoParams
    /\ BucketIdle
    /\ CollectionsIdle
    /\ FilesIdle
    /\ GranulesIdle
    /\ ReportIdle
    /\ CursorIdle
    /\ RerunIdle
    /\ RetryIdle
    /\ ExecutionIdle
    /\ CompletionIdle
    /\ AsyncIdle

\* lines 94-101: the collision check; what it throws goes to the catch block
PostCollisionCheck ==
    /\ pc = "post_start"
    /\ \E outcome \in GetOutcomes(postId) :
          /\ lookedUp' = outcome
          /\ postError' = throwIfDynamoRecordExists(outcome)
    /\ pc' = IF postError' = Null THEN "post_transaction" ELSE "post_catch"
    /\ UNCHANGED <<providerStores, storesAtRequest, postId, postResponse>>
    /\ UNCHANGED outsideProvider

\* lines 102-110: the transaction inserts into PostgreSQL and then creates
\* the DynamoDB record; an error thrown inside rolls the insert back
PostTransaction ==
    /\ pc = "post_transaction"
    /\ \/ \* rdsProviderFromCumulusProvider or validateProviderHost throws
          /\ postError' = BadRequestError
          /\ UNCHANGED providerStores
       \/ \* the insert throws: the name is taken, or the database fails
          /\ postError' = IF postId \in providerStores.postgres
                          THEN UniqueViolation ELSE OtherError
          /\ UNCHANGED providerStores
       \/ \* providerModel.create throws
          /\ postId \notin providerStores.postgres
          /\ postError' = OtherError
          /\ UNCHANGED providerStores
       \/ \* addToLocalES throws (in test mode): DynamoDB keeps the record
          /\ postId \notin providerStores.postgres
          /\ postError' = OtherError
          /\ providerStores' = [providerStores EXCEPT !.dynamo = @ \cup {postId}]
       \/ \* the transaction commits
          /\ postId \notin providerStores.postgres
          /\ postError' = Null
          /\ providerStores' = [dynamo |-> providerStores.dynamo \cup {postId},
                                postgres |-> providerStores.postgres \cup {postId}]
    /\ pc' = IF postError' = Null THEN "post_send" ELSE "post_catch"
    /\ UNCHANGED <<storesAtRequest, postId, lookedUp, postResponse>>
    /\ UNCHANGED outsideProvider

\* line 111
PostSend ==
    /\ pc = "post_send"
    /\ postResponse' = [via |-> "send", message |-> "Record saved"]
    /\ pc' = "post_done"
    /\ UNCHANGED <<providerStores, storesAtRequest, postId, lookedUp, postError>>
    /\ UNCHANGED outsideProvider

\* isBadRequestError(error) of ../lib/errors
isBadRequestError(error) == error.name = "ValidationError"

\* lines 112-125: the catch block
PostCatch ==
    /\ pc = "post_catch"
    /\ postResponse' =
           IF postError.is = "ApiProviderCollisionError"
              \/ ("code" \in DOMAIN postError /\ postError.code = "23505")
           THEN [via |-> "boom.conflict", message |-> "A record already exists"]
           ELSE IF isBadRequestError(postError)
           THEN [via |-> "boom.badRequest", message |-> postError.name]
           ELSE [via |-> "boom.badImplementation", message |-> postError.name]
    /\ pc' = "post_done"
    /\ UNCHANGED <<providerStores, storesAtRequest, postId, lookedUp, postError>>
    /\ UNCHANGED outsideProvider

ProviderNext ==
    \/ PostCollisionCheck
    \/ PostTransaction
    \/ PostSend
    \/ PostCatch

SpecProvider == ProviderInit /\ [][ProviderNext]_vars

\* ---------------------------------------------------------------- C31
\* C31: in post, when providerModel.get throws RecordDoesNotExist the
\* collision check throws nothing and the transaction is entered; when it
\* returns a record the response is a conflict and neither store has changed;
\* any other error of the lookup leaves the check as it is, reaches the catch
\* block of post and ends in an error response, with neither store changed.
C31_CollisionCheck ==
    /\ pc = "post_transaction" => (lookedUp = "RecordDoesNotExist" /\ postError = Null)
    /\ (lookedUp = "RecordDoesNotExist" /\ pc = "post_catch") =>
           providerStores.postgres = storesAtRequest.postgres
    /\ lookedUp = "record" =>
           /\ postError = ApiProviderCollisionError
           /\ providerStores = storesAtRequest
           /\ pc \in {"post_catch", "post_done"}
           /\ pc = "post_done" => postResponse.via = "boom.conflict"
    /\ lookedUp \in {"BadRequestError", "OtherError"} =>
           /\ postError = ErrorNamed(lookedUp)
           /\ providerStores = storesAtRequest
           /\ pc \in {"post_catch", "post_done"}
           /\ pc = "post_done" =>
                  postResponse.via \in {"boom.badRequest", "boom.badImplementation"}

\* A provider whose id DynamoDB already holds, and PostgreSQL does not, was
\* refused with a conflict.
C31_Witness ==
    /\ pc = "post_done"
    /\ lookedUp = "record"
    /\ postId \notin storesAtRequest.postgres
    /\ postResponse.via = "boom.conflict"

\* A provider of a new id was created in both stores.
C31_WitnessCreated ==
    /\ pc = "post_done"
    /\ lookedUp = "RecordDoesNotExist"
    /\ postResponse.via = "send"
    /\ providerStores.dynamo = storesAtRequest.dynamo \cup {postId}
    /\ providerStores.postgres = storesAtRequest.postgres \cup {postId}

====
